---- MODULE Spec2Model ----
(***************************************************************************)
(* Step-graph-to-visual-graph compiler of the workflow playground:         *)
(* constructNodesAndEdges / processStepGraph / processStep of              *)
(* packages/playground-ui/src/domains/workflows/workflow/utils.ts.         *)
(*                                                                         *)
(* Strings are TLA+ strings, so the identifiers the code builds with       *)
(* template literals are built here with \o and ToString and can collide   *)
(* exactly when they collide in the code.                                  *)
(*                                                                         *)
(* The WorkflowNestedGraph component of workflow-nested-graph.tsx shows    *)
(* the compiled graph and colours its edges from the state of the current  *)
(* run: open is its prop, isMounted its state, runSteps the steps that    *)
(* useCurrentRun hands it, strokes the edge colours of its last render.    *)
(***************************************************************************)
EXTENDS Integers, Sequences, FiniteSets, TLC

VARIABLES stepGraph, dagre, pc, nodes, edges, stepsFlow, layouts,
          open, isMounted, runSteps, strokes

vars ==
    <<stepGraph, dagre, pc, nodes, edges, stepsFlow, layouts, open, isMounted,
      runSteps, strokes>>

(***************************************************************************)
(* Program constants                                                       *)
(***************************************************************************)
NODE_WIDTH == 274
NODE_HEIGHT == 100
NODE_HEIGHT_LARGE == 260
GROUP_PADDING == 40
GROUP_HEADER_HEIGHT == 50
MIN_GROUP_WIDTH == 300
MIN_GROUP_HEIGHT == 150

(***************************************************************************)
(* JavaScript values and array helpers                                     *)
(***************************************************************************)
\* the value a missing string-valued property or array slot reads as
undefined == "undefined"

\* truthiness of a string-or-undefined value
Truthy(v) == v # undefined /\ v # ""

\* a || b
OrElse(a, b) == IF Truthy(a) THEN a ELSE b

\* arr[i] with a 0-based index; out of range reads undefined
At(arr, i) == IF (i + 1) \in DOMAIN arr THEN arr[i + 1] ELSE undefined

\* arr.includes(x)
Includes(arr, x) == \E i \in DOMAIN arr : arr[i] = x

\* nodes.map(n => n.id)
Ids(ns) == [i \in DOMAIN ns |-> ns[i].id]

Max(a, b) == IF a >= b THEN a ELSE b

\* a step graph that is absent (undefined / null): a value that is no array, so
\* that reading its length fails as it does in the code
Absent == [i \in {0} |-> undefined]

(***************************************************************************)
(* The step-flow entries (SerializedStepFlowEntry).  One record shape for  *)
(* all variants: id is step.id (step, foreach, loop) or id (sleep,         *)
(* sleepUntil); hasFlow says that step.serializedStepFlow is present.      *)
(***************************************************************************)
Entry(type, id, component, hasFlow, flow, steps, conds) ==
    [type |-> type, id |-> id, component |-> component, hasFlow |-> hasFlow,
     serializedStepFlow |-> flow, steps |-> steps, serializedConditions |-> conds]

PlainEntry(type, id) == Entry(type, id, undefined, FALSE, <<>>, <<>>, <<>>)
WorkflowEntry(type, id, flow) == Entry(type, id, "WORKFLOW", TRUE, flow, <<>>, <<>>)
ParallelEntry(steps) == Entry("parallel", undefined, undefined, FALSE, <<>>, steps, <<>>)
ConditionalEntry(steps, conds) ==
    Entry("conditional", undefined, undefined, FALSE, <<>>, steps, conds)
LoopEntry(id, cond) == Entry("loop", id, undefined, FALSE, <<>>, <<>>, <<cond>>)
LoopWorkflowEntry(id, flow, cond) == Entry("loop", id, "WORKFLOW", TRUE, flow, <<>>, <<cond>>)
UnknownEntry == PlainEntry("waitForEvent", undefined)

(***************************************************************************)
(* Nodes and edges                                                         *)
(***************************************************************************)
\* ...(context.parentGroupId && { parentId: context.parentGroupId, ... })
ParentOf(context) ==
    IF Truthy(context.parentGroupId) THEN context.parentGroupId ELSE undefined

MkNode(id, type, context, label, stepId, stepPath) ==
    [id |-> id, type |-> type, parentId |-> ParentOf(context),
     label |-> label, stepId |-> stepId, stepPath |-> stepPath,
     isParallel |-> FALSE, isForEach |-> FALSE, isLarge |-> FALSE,
     previousStepId |-> undefined, nextStepId |-> undefined,
     timer |-> undefined,
     sized |-> FALSE, width |-> 0, height |-> 0,
     positioned |-> FALSE, x |-> 0, y |-> 0]

MkEdge(source, target, previousStepId, nextStepId, previousStepPath, nextStepPath, conditionNode, zIndex) ==
    [id |-> "e" \o source \o "-" \o target, source |-> source, target |-> target,
     previousStepId |-> previousStepId, nextStepId |-> nextStepId,
     previousStepPath |-> previousStepPath, nextStepPath |-> nextStepPath,
     conditionNode |-> conditionNode, zIndex |-> zIndex]

\* ...(context.parentGroupId && { zIndex: 1 }); 0 stands for "not set"
ZIndexOf(context) == IF Truthy(context.parentGroupId) THEN 1 ELSE 0

\* const makeNodeId = (id) => (context.idPrefix ? `${context.idPrefix}_${id}` : id)
makeNodeId(context, id) ==
    IF Truthy(context.idPrefix) THEN context.idPrefix \o "_" \o id ELSE id

\* makeStepPath that ignores the path of the enclosing group
makeStepPath_flat(context, id) == id

\* const makeStepPath = (id) => (context.stepPathPrefix ? `${...}.${id}` : id)
makeStepPath(context, id) ==
    IF Truthy(context.stepPathPrefix) THEN context.stepPathPrefix \o "." \o id ELSE id

\* allNodeIds.includes(baseNodeId) ? `${baseNodeId}-${yIndex}` : baseNodeId
allocateNodeId(allNodeIds, baseNodeId, yIndex) ==
    IF Includes(allNodeIds, baseNodeId)
    THEN baseNodeId \o "-" \o ToString(yIndex)
    ELSE baseNodeId

\* stepFlow.step.component === 'WORKFLOW' && stepFlow.step.serializedStepFlow
hasNestedWorkflow(stepFlow) == stepFlow.component = "WORKFLOW" /\ stepFlow.hasFlow

\* EdgesFromPrev that links the first predecessor only
EdgesFromPrev_firstOnly(prevNodeIds, prevStepIds, prevStepPaths, nodeId, nextStepId, nextStepPath, conditionNode, context) ==
    [i \in DOMAIN prevNodeIds \cap {1} |->
        MkEdge(prevNodeIds[i], nodeId, At(prevStepIds, i - 1), nextStepId,
               At(prevStepPaths, i - 1), nextStepPath, conditionNode, ZIndexOf(context))]

\* prevNodeIds.map((prevNodeId, i) => edge prevNodeId -> nodeId)
EdgesFromPrev(prevNodeIds, prevStepIds, prevStepPaths, nodeId, nextStepId, nextStepPath, conditionNode, context) ==
    [i \in DOMAIN prevNodeIds |->
        MkEdge(prevNodeIds[i], nodeId, At(prevStepIds, i - 1), nextStepId,
               At(prevStepPaths, i - 1), nextStepPath, conditionNode, ZIndexOf(context))]

\* prevNodeIds.flatMap((prevNodeId, i) => nestedResult.firstNodeIds.map(...))
RECURSIVE IncomingEdges(_, _, _, _, _, _, _)
IncomingEdges(prevNodeIds, prevStepIds, prevStepPaths, firstNodeIds, nextStepId, nextStepPath, i) ==
    IF i >= Len(prevNodeIds) THEN <<>>
    ELSE [j \in DOMAIN firstNodeIds |->
            MkEdge(prevNodeIds[i + 1], firstNodeIds[j],
                   OrElse(At(prevStepIds, i), At(prevStepIds, 0)), nextStepId,
                   OrElse(At(prevStepPaths, i), At(prevStepPaths, 0)), nextStepPath,
                   FALSE, 1)]
         \o IncomingEdges(prevNodeIds, prevStepIds, prevStepPaths, firstNodeIds,
                          nextStepId, nextStepPath, i + 1)

EmptyStepResult ==
    [nodes |-> <<>>, edges |-> <<>>, entryNodeIds |-> <<>>, exitNodeIds |-> <<>>,
     exitStepIds |-> <<>>, exitStepPaths |-> <<>>, layouts |-> <<>>]

(***************************************************************************)
(* The layout library.  Dagre is an external dependency: the bounding box  *)
(* and the node centre it reports are inputs of the run (dagre).           *)
(***************************************************************************)
\* g.graph()?.width ?? NODE_WIDTH
graphWidth(d) == d.width
\* g.graph()?.height ?? NODE_HEIGHT
graphHeight(d) == d.height

\* width / height given to the layout for a node, and used to place it
nodeWidth(n) == IF n.sized THEN n.width ELSE NODE_WIDTH
nodeHeight(n) ==
    IF n.sized THEN n.height ELSE IF n.isLarge THEN NODE_HEIGHT_LARGE ELSE NODE_HEIGHT

\* positionedDirectNodes: top-left from the centre, offset inside a group
positionNode(n, d, context) ==
    [n EXCEPT !.positioned = TRUE,
              !.x = d.x - (nodeWidth(n) \div 2)
                    + (IF Truthy(context.parentGroupId) THEN GROUP_PADDING ELSE 0),
              !.y = d.y - (nodeHeight(n) \div 2)
                    + (IF Truthy(context.parentGroupId)
                       THEN GROUP_HEADER_HEIGHT + GROUP_PADDING ELSE 0)]

\* layoutNodes that returns the nested children before the nodes of the level
layoutNodes_childrenFirst(ns, d, context) ==
    LET isDirect(n) == n.parentId = ParentOf(context)
        isChild(n) == n.parentId # ParentOf(context)
        directNodes == SelectSeq(ns, isDirect)
        childNodes == SelectSeq(ns, isChild)
    IN  childNodes
        \o [i \in DOMAIN directNodes |-> positionNode(directNodes[i], d, context)]

\* layoutNodes that positions the nested children of the level as well
layoutNodes_withChildren(ns, d, context) ==
    LET isDirect(n) == n.parentId = ParentOf(context)
        isChild(n) == n.parentId # ParentOf(context)
        ordered == SelectSeq(ns, isDirect) \o SelectSeq(ns, isChild)
    IN  [i \in DOMAIN ordered |-> positionNode(ordered[i], d, context)]

\* [...positionedDirectNodes, ...childNodes]
layoutNodes(ns, d, context) ==
    LET isDirect(n) == n.parentId = ParentOf(context)
        isChild(n) == n.parentId # ParentOf(context)
        directNodes == SelectSeq(ns, isDirect)
        childNodes == SelectSeq(ns, isChild)
    IN  [i \in DOMAIN directNodes |-> positionNode(directNodes[i], d, context)]
        \o childNodes

\* one call of Dagre.layout: the level it lays out and the nodes given to it
\* with g.setNode(node.id, { width, height }), in call order
layoutCall(ns, context) ==
    LET isDirect(n) == n.parentId = ParentOf(context)
        directNodes == SelectSeq(ns, isDirect)
    IN  [level |-> ParentOf(context),
         given |-> [i \in DOMAIN directNodes |->
                      [id |-> directNodes[i].id, width |-> nodeWidth(directNodes[i]),
                       height |-> nodeHeight(directNodes[i])]]]

totalWidth(d, context) ==
    graphWidth(d) + (IF Truthy(context.parentGroupId) THEN GROUP_PADDING * 2 ELSE 0)
totalHeight(d, context) ==
    graphHeight(d)
    + (IF Truthy(context.parentGroupId) THEN GROUP_HEADER_HEIGHT + GROUP_PADDING * 2 ELSE 0)

(***************************************************************************)
(* processStepGraph and processStep.  A value the code computes once and   *)
(* reads several times (nestedResult, result) is an argument of the        *)
(* operator that builds the returned object from it.                       *)
(***************************************************************************)
RECURSIVE processStepGraph(_, _, _)
RECURSIVE processStep(_, _, _, _, _, _, _, _)
RECURSIVE processSteps(_, _, _, _, _)
RECURSIVE processParallel(_, _, _, _, _, _, _, _, _, _)
RECURSIVE processConditional(_, _, _, _, _, _, _, _, _, _)
RECURSIVE levelResult(_, _, _)

\* the context of the recursion into the nested workflow of the node nodeId
nestedContext(nodeId, stepPath) ==
    [parentGroupId |-> nodeId, idPrefix |-> nodeId, stepPathPrefix |-> stepPath]

\* the group node of a nested workflow, sized from the nested result
groupNode(stepFlow, nodeId, stepPath, context, nestedResult) ==
    [MkNode(nodeId, "group-node", context, stepFlow.id, stepFlow.id, stepPath)
       EXCEPT !.isForEach = (stepFlow.type = "foreach"),
              !.sized = TRUE,
              !.width = nestedResult.width,
              !.height = nestedResult.height]

\* what processStep returns for a step / foreach with a nested workflow
workflowStepResult(stepFlow, prevNodeIds, prevStepIds, prevStepPaths, nodeId, stepPath, context, nestedResult) ==
    [nodes |-> <<groupNode(stepFlow, nodeId, stepPath, context, nestedResult)>>
               \o nestedResult.nodes,
     edges |-> IncomingEdges(prevNodeIds, prevStepIds, prevStepPaths,
                   nestedResult.firstNodeIds, stepFlow.id,
                   OrElse(At(nestedResult.firstStepPaths, 0), stepPath), 0)
               \o nestedResult.edges,
     entryNodeIds |-> nestedResult.firstNodeIds,
     exitNodeIds |-> nestedResult.lastNodeIds,
     exitStepIds |-> <<stepFlow.id>>,
     exitStepPaths |-> nestedResult.lastStepPaths,
     layouts |-> nestedResult.layouts]

\* processWorkflowStep with the id list of the enclosing level shared with the
\* nested level instead of a fresh one
processWorkflowStep_sharedIds(stepFlow, prevNodeIds, prevStepIds, prevStepPaths, allNodeIds, yIndex, context, d) ==
    LET nodeId == allocateNodeId(allNodeIds, makeNodeId(context, stepFlow.id), yIndex)
        stepPath == makeStepPath(context, stepFlow.id)
    IN  workflowStepResult(stepFlow, prevNodeIds, prevStepIds, prevStepPaths, nodeId,
            stepPath, context,
            IF Len(stepFlow.serializedStepFlow) = 0
            THEN processStepGraph(stepFlow.serializedStepFlow,
                                  nestedContext(nodeId, stepPath), d)
            ELSE levelResult(
                     processSteps(stepFlow.serializedStepFlow,
                         nestedContext(nodeId, stepPath), d, 0,
                         [nodes |-> <<>>, edges |-> <<>>, prevNodeIds |-> <<>>,
                          prevStepIds |-> <<>>, prevStepPaths |-> <<>>,
                          allNodeIds |-> allNodeIds, firstNodeIds |-> <<>>,
                          firstStepPaths |-> <<>>, layouts |-> <<>>]),
                     nestedContext(nodeId, stepPath), d))

\* step / foreach with a nested workflow: group node around the nested graph
processWorkflowStep(stepFlow, prevNodeIds, prevStepIds, prevStepPaths, allNodeIds, yIndex, context, d) ==
    LET nodeId == allocateNodeId(allNodeIds, makeNodeId(context, stepFlow.id), yIndex)
        stepPath == makeStepPath(context, stepFlow.id)
    IN  workflowStepResult(stepFlow, prevNodeIds, prevStepIds, prevStepPaths, nodeId,
            stepPath, context,
            processStepGraph(stepFlow.serializedStepFlow,
                             nestedContext(nodeId, stepPath), d))

\* step / foreach without nested workflow: one default node
processPlainStep(stepFlow, prevNodeIds, prevStepIds, prevStepPaths, allNodeIds, yIndex, context) ==
    LET nodeId == allocateNodeId(allNodeIds, makeNodeId(context, stepFlow.id), yIndex)
        stepPath == makeStepPath(context, stepFlow.id)
        node == [MkNode(nodeId, "default-node", context, stepFlow.id, stepFlow.id,
                        stepPath)
                   EXCEPT !.isForEach = (stepFlow.type = "foreach")]
    IN  [nodes |-> <<node>>,
         edges |-> EdgesFromPrev(prevNodeIds, prevStepIds, prevStepPaths, nodeId,
                                 stepFlow.id, stepPath, FALSE, context),
         entryNodeIds |-> <<nodeId>>,
         exitNodeIds |-> <<nodeId>>,
         exitStepIds |-> <<stepFlow.id>>,
         exitStepPaths |-> <<stepPath>>,
         layouts |-> <<>>]

\* processSleep with the sleep branch missing: the entry falls through
processSleep_unhandled(stepFlow, prevNodeIds, prevStepIds, prevStepPaths, allNodeIds, yIndex, context) ==
    EmptyStepResult

\* sleep / sleepUntil: one default node carrying a duration or a date
processSleep(stepFlow, prevNodeIds, prevStepIds, prevStepPaths, allNodeIds, yIndex, context) ==
    LET nodeId == allocateNodeId(allNodeIds, makeNodeId(context, stepFlow.id), yIndex)
        stepPath == makeStepPath(context, stepFlow.id)
        node == [MkNode(nodeId, "default-node", context, stepFlow.id, stepFlow.id,
                        stepPath)
                   EXCEPT !.timer = IF stepFlow.type = "sleepUntil"
                                    THEN "date" ELSE "duration"]
    IN  [nodes |-> <<node>>,
         edges |-> EdgesFromPrev(prevNodeIds, prevStepIds, prevStepPaths, nodeId,
                                 stepFlow.id, stepPath, FALSE, context),
         entryNodeIds |-> <<nodeId>>,
         exitNodeIds |-> <<nodeId>>,
         exitStepIds |-> <<stepFlow.id>>,
         exitStepPaths |-> <<stepPath>>,
         layouts |-> <<>>]

\* result.nodes.map(n => ({ ...n, data: { ...n.data, isParallel: true } }))
markParallel(ns) == [i \in DOMAIN ns |-> [ns[i] EXCEPT !.isParallel = TRUE]]

\* the pushes that end one iteration of the parallel forEach
pushParallel(acc, result) ==
    [nodes |-> acc.nodes \o markParallel(result.nodes),
     edges |-> acc.edges \o result.edges,
     entryNodeIds |-> acc.entryNodeIds \o result.entryNodeIds,
     exitNodeIds |-> acc.exitNodeIds \o result.exitNodeIds,
     exitStepIds |-> acc.exitStepIds \o result.exitStepIds,
     exitStepPaths |-> acc.exitStepPaths \o result.exitStepPaths,
     layouts |-> acc.layouts \o result.layouts]

\* pushParallel of branches that are chained: only the last branch exits
pushChained(acc, result) ==
    [nodes |-> acc.nodes \o markParallel(result.nodes),
     edges |-> acc.edges \o result.edges,
     entryNodeIds |-> IF acc.nodes = <<>> THEN result.entryNodeIds ELSE acc.entryNodeIds,
     exitNodeIds |-> result.exitNodeIds,
     exitStepIds |-> result.exitStepIds,
     exitStepPaths |-> result.exitStepPaths,
     layouts |-> acc.layouts \o result.layouts]

RECURSIVE processParallel_chained(_, _, _, _, _, _, _, _, _, _)
\* processParallel with each branch chained after the branch before it
processParallel_chained(stepFlow, prevNodeIds, prevStepIds, prevStepPaths, allNodeIds, yIndex, context, d, idx, acc) ==
    IF idx >= Len(stepFlow.steps) THEN acc
    ELSE processParallel_chained(stepFlow,
             IF idx = 0 THEN prevNodeIds ELSE acc.exitNodeIds,
             IF idx = 0 THEN prevStepIds ELSE acc.exitStepIds,
             IF idx = 0 THEN prevStepPaths ELSE acc.exitStepPaths,
             allNodeIds, yIndex, context, d, idx + 1,
             pushChained(acc,
                 processStep(stepFlow.steps[idx + 1],
                     IF idx = 0 THEN prevNodeIds ELSE acc.exitNodeIds,
                     IF idx = 0 THEN prevStepIds ELSE acc.exitStepIds,
                     IF idx = 0 THEN prevStepPaths ELSE acc.exitStepPaths,
                     allNodeIds \o Ids(acc.nodes), yIndex, context, d)))

\* stepFlow.steps.forEach((parallelStep, idx) => ...) from branch idx on, acc
\* holding the arrays accumulated by the branches before idx
processParallel(stepFlow, prevNodeIds, prevStepIds, prevStepPaths, allNodeIds, yIndex, context, d, idx, acc) ==
    IF idx >= Len(stepFlow.steps) THEN acc
    ELSE processParallel(stepFlow, prevNodeIds, prevStepIds, prevStepPaths,
             allNodeIds, yIndex, context, d, idx + 1,
             pushParallel(acc,
                 processStep(stepFlow.steps[idx + 1], prevNodeIds, prevStepIds,
                     prevStepPaths, allNodeIds \o Ids(acc.nodes), yIndex, context, d)))

\* nodes.filter(n => n.type === 'condition-node').map(n => n.id)
conditionNodeIds(ns) ==
    LET isCondition(n) == n.type = "condition-node"
    IN  Ids(SelectSeq(ns, isCondition))

\* the condition node of branch idx of a conditional
branchConditionNode(stepFlow, prevStepIds, context, idx) ==
    [MkNode(makeNodeId(context, stepFlow.serializedConditions[idx + 1]),
            "condition-node", context, stepFlow.serializedConditions[idx + 1],
            undefined, makeStepPath(context, stepFlow.serializedConditions[idx + 1]))
       EXCEPT !.previousStepId = At(prevStepIds, Len(prevStepIds) - 1),
              !.nextStepId = stepFlow.steps[idx + 1].id,
              !.isLarge = TRUE]

\* pushCondition whose edges do not carry the condition-edge flag
pushCondition_unflagged(acc, stepFlow, prevNodeIds, prevStepIds, prevStepPaths, context, idx) ==
    [acc EXCEPT
       !.nodes = @ \o <<branchConditionNode(stepFlow, prevStepIds, context, idx)>>,
       !.edges = @ \o EdgesFromPrev(prevNodeIds, prevStepIds, prevStepPaths,
                          makeNodeId(context, stepFlow.serializedConditions[idx + 1]),
                          stepFlow.steps[idx + 1].id,
                          makeStepPath(context, stepFlow.serializedConditions[idx + 1]),
                          FALSE, context)]

\* nodes.push(conditionNode); edges.push(...edges from prev to condition)
pushCondition(acc, stepFlow, prevNodeIds, prevStepIds, prevStepPaths, context, idx) ==
    [acc EXCEPT
       !.nodes = @ \o <<branchConditionNode(stepFlow, prevStepIds, context, idx)>>,
       !.edges = @ \o EdgesFromPrev(prevNodeIds, prevStepIds, prevStepPaths,
                          makeNodeId(context, stepFlow.serializedConditions[idx + 1]),
                          stepFlow.steps[idx + 1].id,
                          makeStepPath(context, stepFlow.serializedConditions[idx + 1]),
                          TRUE, context)]

\* the pushes that end one iteration of the conditional forEach
pushBranch(acc, result) ==
    [nodes |-> acc.nodes \o result.nodes,
     edges |-> acc.edges \o result.edges,
     entryNodeIds |-> acc.entryNodeIds,
     exitNodeIds |-> acc.exitNodeIds \o result.exitNodeIds,
     exitStepIds |-> acc.exitStepIds \o result.exitStepIds,
     exitStepPaths |-> acc.exitStepPaths \o result.exitStepPaths,
     layouts |-> acc.layouts \o result.layouts]

\* processBranch with the branch given the rank index of the conditional itself
processBranch_sameRank(stepFlow, allNodeIds, yIndex, context, d, idx, acc1) ==
    pushBranch(acc1,
        processStep(stepFlow.steps[idx + 1],
            <<makeNodeId(context, stepFlow.serializedConditions[idx + 1])>>,
            <<stepFlow.serializedConditions[idx + 1]>>,
            <<makeStepPath(context, stepFlow.serializedConditions[idx + 1])>>,
            allNodeIds \o Ids(acc1.nodes), yIndex, context, d))

\* one iteration of the conditional forEach, acc1 being acc after pushCondition
processBranch(stepFlow, allNodeIds, yIndex, context, d, idx, acc1) ==
    pushBranch(acc1,
        processStep(stepFlow.steps[idx + 1],
            <<makeNodeId(context, stepFlow.serializedConditions[idx + 1])>>,
            <<stepFlow.serializedConditions[idx + 1]>>,
            <<makeStepPath(context, stepFlow.serializedConditions[idx + 1])>>,
            allNodeIds \o Ids(acc1.nodes), yIndex + 1, context, d))

\* stepFlow.steps.forEach((condStep, idx) => ...) from branch idx on
processConditional(stepFlow, prevNodeIds, prevStepIds, prevStepPaths, allNodeIds, yIndex, context, d, idx, acc) ==
    IF idx >= Len(stepFlow.steps)
    THEN [acc EXCEPT !.entryNodeIds = conditionNodeIds(acc.nodes)]
    ELSE processConditional(stepFlow, prevNodeIds, prevStepIds, prevStepPaths,
             allNodeIds, yIndex, context, d, idx + 1,
             processBranch(stepFlow, allNodeIds, yIndex, context, d, idx,
                 pushCondition(acc, stepFlow, prevNodeIds, prevStepIds, prevStepPaths,
                               context, idx)))

\* the condition node that closes a loop
loopConditionNode(stepFlow, context) ==
    [MkNode(makeNodeId(context, stepFlow.serializedConditions[1]), "condition-node",
            context, stepFlow.serializedConditions[1], undefined,
            makeStepPath(context, stepFlow.serializedConditions[1]))
       EXCEPT !.previousStepId = stepFlow.id, !.isLarge = TRUE]

\* nestedResult.lastNodeIds.map((lastNodeId, i) => edge lastNodeId -> condition)
toConditionEdges(lastNodeIds, lastStepPaths, conditionNodeId, loopStepId, condition, stepPath, conditionStepPath) ==
    [i \in DOMAIN lastNodeIds |->
        MkEdge(lastNodeIds[i], conditionNodeId, loopStepId, condition,
               OrElse(At(lastStepPaths, i - 1), stepPath), conditionStepPath, FALSE, 1)]

\* what processStep returns for a loop whose body is a nested workflow
workflowLoopResult(stepFlow, prevNodeIds, prevStepIds, prevStepPaths, nodeId, stepPath, context, nestedResult) ==
    [nodes |-> <<groupNode(stepFlow, nodeId, stepPath, context, nestedResult)>>
               \o nestedResult.nodes
               \o <<loopConditionNode(stepFlow, context)>>,
     edges |-> IncomingEdges(prevNodeIds, prevStepIds, prevStepPaths,
                   nestedResult.firstNodeIds, stepFlow.id,
                   OrElse(At(nestedResult.firstStepPaths, 0), stepPath), 0)
               \o nestedResult.edges
               \o toConditionEdges(nestedResult.lastNodeIds,
                      nestedResult.lastStepPaths,
                      makeNodeId(context, stepFlow.serializedConditions[1]),
                      stepFlow.id, stepFlow.serializedConditions[1], stepPath,
                      makeStepPath(context, stepFlow.serializedConditions[1])),
     entryNodeIds |-> nestedResult.firstNodeIds,
     exitNodeIds |-> <<makeNodeId(context, stepFlow.serializedConditions[1])>>,
     exitStepIds |-> <<stepFlow.id>>,
     exitStepPaths |-> <<makeStepPath(context, stepFlow.serializedConditions[1])>>,
     layouts |-> nestedResult.layouts]

\* loop whose body is a nested workflow
processWorkflowLoop(stepFlow, prevNodeIds, prevStepIds, prevStepPaths, allNodeIds, yIndex, context, d) ==
    LET nodeId == allocateNodeId(allNodeIds, makeNodeId(context, stepFlow.id), yIndex)
        stepPath == makeStepPath(context, stepFlow.id)
    IN  workflowLoopResult(stepFlow, prevNodeIds, prevStepIds, prevStepPaths, nodeId,
            stepPath, context,
            processStepGraph(stepFlow.serializedStepFlow,
                             nestedContext(nodeId, stepPath), d))

\* loop whose body is a plain step
processPlainLoop(stepFlow, prevNodeIds, prevStepIds, prevStepPaths, allNodeIds, yIndex, context) ==
    LET condition == stepFlow.serializedConditions[1]
        nodeId == allocateNodeId(allNodeIds, makeNodeId(context, stepFlow.id), yIndex)
        conditionNodeId == makeNodeId(context, condition)
        stepPath == makeStepPath(context, stepFlow.id)
        conditionStepPath == makeStepPath(context, condition)
        stepNode == MkNode(nodeId, "default-node", context, stepFlow.id, stepFlow.id,
                           stepPath)
    IN  [nodes |-> <<stepNode, loopConditionNode(stepFlow, context)>>,
         edges |-> EdgesFromPrev(prevNodeIds, prevStepIds, prevStepPaths, nodeId,
                                 stepFlow.id, stepPath, FALSE, context)
                   \o <<MkEdge(nodeId, conditionNodeId, stepFlow.id, condition,
                               stepPath, conditionStepPath, FALSE, ZIndexOf(context))>>,
         entryNodeIds |-> <<nodeId>>,
         exitNodeIds |-> <<conditionNodeId>>,
         exitStepIds |-> <<stepFlow.id>>,
         exitStepPaths |-> <<conditionStepPath>>,
         layouts |-> <<>>]

\* Process a single step entry
processStep(stepFlow, prevNodeIds, prevStepIds, prevStepPaths, allNodeIds, yIndex, context, d) ==
    IF stepFlow.type \in {"step", "foreach"}
    THEN IF hasNestedWorkflow(stepFlow)
         THEN processWorkflowStep(stepFlow, prevNodeIds, prevStepIds, prevStepPaths,
                                  allNodeIds, yIndex, context, d)
         ELSE processPlainStep(stepFlow, prevNodeIds, prevStepIds, prevStepPaths,
                               allNodeIds, yIndex, context)
    ELSE IF stepFlow.type \in {"sleep", "sleepUntil"}
    THEN processSleep(stepFlow, prevNodeIds, prevStepIds, prevStepPaths, allNodeIds,
                      yIndex, context)
    ELSE IF stepFlow.type = "parallel"
    THEN processParallel(stepFlow, prevNodeIds, prevStepIds, prevStepPaths,
                         allNodeIds, yIndex, context, d, 0, EmptyStepResult)
    ELSE IF stepFlow.type = "conditional"
    THEN processConditional(stepFlow, prevNodeIds, prevStepIds, prevStepPaths,
                            allNodeIds, yIndex, context, d, 0, EmptyStepResult)
    ELSE IF stepFlow.type = "loop"
    THEN IF hasNestedWorkflow(stepFlow)
         THEN processWorkflowLoop(stepFlow, prevNodeIds, prevStepIds, prevStepPaths,
                                  allNodeIds, yIndex, context, d)
         ELSE processPlainLoop(stepFlow, prevNodeIds, prevStepIds, prevStepPaths,
                               allNodeIds, yIndex, context)
    ELSE EmptyStepResult

\* the state of the for loop of processStepGraph before its first iteration
InitialLoopState ==
    [nodes |-> <<>>, edges |-> <<>>, prevNodeIds |-> <<>>, prevStepIds |-> <<>>,
     prevStepPaths |-> <<>>, allNodeIds |-> <<>>, firstNodeIds |-> <<>>,
     firstStepPaths |-> <<>>, layouts |-> <<>>]

\* the assignments and pushes that end iteration i of the for loop
pushStep(acc, result, i) ==
    [nodes |-> acc.nodes \o result.nodes,
     edges |-> acc.edges \o result.edges,
     prevNodeIds |-> result.exitNodeIds,
     prevStepIds |-> result.exitStepIds,
     prevStepPaths |-> result.exitStepPaths,
     allNodeIds |-> acc.allNodeIds \o Ids(result.nodes),
     firstNodeIds |-> IF i = 0 THEN result.entryNodeIds ELSE acc.firstNodeIds,
     firstStepPaths |-> IF i = 0 THEN result.exitStepPaths ELSE acc.firstStepPaths,
     layouts |-> acc.layouts \o result.layouts]

\* for (let i = 0; i < stepGraph.length; i++) { ... } from iteration i on
processSteps(graph, context, d, i, acc) ==
    IF i >= Len(graph) THEN acc
    ELSE processSteps(graph, context, d, i + 1,
             pushStep(acc,
                 processStep(graph[i + 1], acc.prevNodeIds, acc.prevStepIds,
                     acc.prevStepPaths, acc.allNodeIds, i, context, d),
                 i))

\* the layout of a level and the object processStepGraph returns, s being the
\* state of the for loop at its end
levelResult(s, context, d) ==
    [nodes |-> layoutNodes(s.nodes, d, context),
     edges |-> s.edges,
     firstNodeIds |-> s.firstNodeIds,
     lastNodeIds |-> s.prevNodeIds,
     firstStepPaths |-> s.firstStepPaths,
     lastStepPaths |-> s.prevStepPaths,
     width |-> Max(totalWidth(d, context), MIN_GROUP_WIDTH),
     height |-> Max(totalHeight(d, context), MIN_GROUP_HEIGHT),
     layouts |-> s.layouts \o <<layoutCall(s.nodes, context)>>]

\* Unified recursive function to process a step graph at any nesting level
processStepGraph(graph, context, d) ==
    IF graph = Absent \/ Len(graph) = 0
    THEN [nodes |-> <<>>, edges |-> <<>>, firstNodeIds |-> <<>>, lastNodeIds |-> <<>>,
          firstStepPaths |-> <<>>, lastStepPaths |-> <<>>,
          width |-> NODE_WIDTH, height |-> NODE_HEIGHT, layouts |-> <<>>]
    ELSE levelResult(processSteps(graph, context, d, 0, InitialLoopState), context, d)

(***************************************************************************)
(* constructNodesAndEdges                                                  *)
(***************************************************************************)
\* [...new Set([...(acc[stepId] || []), prevStepId])]
addToSet(arr, v) == IF Includes(arr, v) THEN arr ELSE Append(arr, v)

\* reduceEdge without the Set: a predecessor is appended once per edge
reduceEdge_noSet(acc, edge) ==
    [k \in (DOMAIN acc) \cup {edge.nextStepId} |->
        IF k = edge.nextStepId
        THEN Append(IF k \in DOMAIN acc THEN acc[k] ELSE <<>>, edge.previousStepId)
        ELSE acc[k]]

\* one step of result.edges.reduce(...): { ...acc, [stepId]: [...] }
reduceEdge(acc, edge) ==
    [k \in (DOMAIN acc) \cup {edge.nextStepId} |->
        IF k = edge.nextStepId
        THEN addToSet(IF k \in DOMAIN acc THEN acc[k] ELSE <<>>, edge.previousStepId)
        ELSE acc[k]]

\* result.edges.reduce(reduceEdge, {})
RECURSIVE computeStepsFlow(_, _, _)
computeStepsFlow(es, i, acc) ==
    IF i > Len(es) THEN acc
    ELSE computeStepsFlow(es, i + 1, reduceEdge(acc, es[i]))

EmptyObject == [k \in {} |-> <<>>]

TopContext == [parentGroupId |-> undefined, idPrefix |-> "", stepPathPrefix |-> ""]

\* the returned nodes and edges, with the stepsFlow attached to the nodes
withStepsFlow(result) ==
    [nodes |-> result.nodes, edges |-> result.edges,
     stepsFlow |-> computeStepsFlow(result.edges, 1, EmptyObject),
     layouts |-> result.layouts]

\* constructNodesAndEdges with an empty step graph not short-circuited: it is
\* processed and laid out like any other
constructNodesAndEdges_noEmptyCheck(graph, d) ==
    IF graph = Absent
    THEN [nodes |-> <<>>, edges |-> <<>>, stepsFlow |-> EmptyObject, layouts |-> <<>>]
    ELSE withStepsFlow(
             levelResult(processSteps(graph, TopContext, d, 0, InitialLoopState),
                         TopContext, d))

constructNodesAndEdges(graph, d) ==
    IF graph = Absent \/ Len(graph) = 0
    THEN [nodes |-> <<>>, edges |-> <<>>, stepsFlow |-> EmptyObject, layouts |-> <<>>]
    ELSE withStepsFlow(processStepGraph(graph, TopContext, d))

(***************************************************************************)
(* The step graphs of the runs: every step graph with at most MaxSize      *)
(* entries in all (nested graphs and branches counted).  Branches of a     *)
(* parallel or conditional entry are step entries, with or without a       *)
(* nested workflow; a conditional has one condition per branch.            *)
(***************************************************************************)
MaxSize == 3

StepIds == {"a", "b"}
ConditionIds == {"c", "d"}

LeafEntries ==
    {PlainEntry("step", id) : id \in StepIds}
    \cup {PlainEntry("foreach", "a"), PlainEntry("sleep", "b"),
          PlainEntry("sleepUntil", "a"), UnknownEntry}
    \cup {LoopEntry("a", c) : c \in ConditionIds}

RECURSIVE GraphsOfSize(_)
RECURSIVE EntriesOfSize(_)
RECURSIVE BranchesOfSize(_)

\* sequences of step entries (plain or nested workflow) with n entries in all
BranchesOfSize(n) ==
    IF n = 0 THEN {<<>>}
    ELSE UNION {
           {<<e>> \o bs :
               e \in (IF k = 1 THEN {PlainEntry("step", id) : id \in StepIds} ELSE {})
                     \cup {WorkflowEntry("step", "b", g) : g \in GraphsOfSize(k - 1)},
               bs \in BranchesOfSize(n - k)} : k \in 1..n}

EntriesOfSize(k) ==
    (IF k = 1 THEN LeafEntries ELSE {})
    \cup {WorkflowEntry("step", "b", g) : g \in GraphsOfSize(k - 1)}
    \cup {LoopWorkflowEntry("b", g, "c") : g \in GraphsOfSize(k - 1)}
    \cup {ParallelEntry(bs) : bs \in BranchesOfSize(k - 1) \ {<<>>}}
    \cup UNION {{ConditionalEntry(bs, cs) : cs \in [DOMAIN bs -> ConditionIds]} :
                   bs \in BranchesOfSize(k - 1) \ {<<>>}}

GraphsOfSize(n) ==
    IF n = 0 THEN {<<>>}
    ELSE UNION {{<<e>> \o g : e \in EntriesOfSize(k), g \in GraphsOfSize(n - k)} :
                  k \in 1..n}

StepGraphs == UNION {GraphsOfSize(n) : n \in 0..MaxSize}

\* what the layout library reports for a level: bounding box and node centre
DagreResults ==
    {[width |-> 274, height |-> 100, x |-> 137, y |-> 50],
     [width |-> 598, height |-> 460, x |-> 461, y |-> 330]}

(***************************************************************************)
(* WorkflowNestedGraph: the colour of an edge in a run state.  A run state *)
(* maps the keys of the steps that were reported to their status.          *)
(***************************************************************************)
NoSteps == [k \in {} |-> undefined]

\* steps[key]?.status
statusOf(run, key) == IF key \in DOMAIN run THEN run[key] ELSE undefined

\* `${workflowName}.${stepId}`
flatKey(workflowName, stepId) == workflowName \o "." \o stepId

ActiveStroke == "#22c55e"

\* edgeStroke without the flat-id lookups: the paths alone decide
edgeStroke_pathOnly(e, run, workflowName) ==
    IF statusOf(run, e.previousStepPath) = "success" /\ e.nextStepPath \in DOMAIN run
    THEN ActiveStroke
    ELSE IF /\ e.conditionNode
            /\ e.previousStepPath \notin DOMAIN run
            /\ Truthy(statusOf(run, e.nextStepPath))
    THEN ActiveStroke
    ELSE undefined

\* style.stroke of an edge
edgeStroke(e, run, workflowName) ==
    IF statusOf(run, e.previousStepPath) = "success" /\ e.nextStepPath \in DOMAIN run
    THEN ActiveStroke
    ELSE IF /\ statusOf(run, flatKey(workflowName, e.previousStepId)) = "success"
            /\ flatKey(workflowName, e.nextStepId) \in DOMAIN run
    THEN ActiveStroke
    ELSE IF /\ e.conditionNode
            /\ e.previousStepPath \notin DOMAIN run
            /\ flatKey(workflowName, e.previousStepId) \notin DOMAIN run
            /\ \/ Truthy(statusOf(run, e.nextStepPath))
               \/ Truthy(statusOf(run, flatKey(workflowName, e.nextStepId)))
    THEN ActiveStroke
    ELSE undefined

\* edges.map(e => ({ ...e, style: { stroke } })) once mounted, the spinner before
render(es, run, workflowName, mounted) ==
    IF mounted THEN [i \in DOMAIN es |-> edgeStroke(es[i], run, workflowName)]
    ELSE <<>>

(***************************************************************************)
(* The state machine: a caller holds a step graph and invokes the compiler *)
(***************************************************************************)
Init ==
    /\ stepGraph \in StepGraphs
    /\ dagre \in DagreResults
    /\ pc = "idle"
    /\ nodes = <<>>
    /\ edges = <<>>
    /\ stepsFlow = EmptyObject
    /\ layouts = <<>>
    /\ open = FALSE
    /\ isMounted = FALSE
    /\ runSteps = NoSteps
    /\ strokes = <<>>

Construct ==
    /\ pc = "idle"
    /\ LET result == constructNodesAndEdges(stepGraph, dagre)
       IN  /\ nodes' = result.nodes
           /\ edges' = result.edges
           /\ stepsFlow' = result.stepsFlow
           /\ layouts' = result.layouts
    /\ pc' = "done"
    /\ UNCHANGED <<stepGraph, dagre, open, isMounted, runSteps, strokes>>

Next == Construct

Spec == Init /\ [][Next]_vars

(***************************************************************************)
(* Further sets of step graphs, each with its own specification            *)
(***************************************************************************)
RECURSIVE SeqsUpTo(_, _)
\* the sequences of at most n elements of S
SeqsUpTo(S, n) ==
    IF n = 0 THEN {<<>>}
    ELSE LET shorter == SeqsUpTo(S, n - 1)
         IN  shorter \cup {Append(q, e) : q \in shorter, e \in S}

\* sequences of plain steps; "a-2" is an id of the shape the allocator builds
MaxSeqLen == 3
SequenceIds == {"a", "b", "a-2"}
PlainSequences ==
    SeqsUpTo({PlainEntry(t, id) : t \in {"step", "foreach"}, id \in SequenceIds},
             MaxSeqLen)

\* step graphs whose entries repeat step ids; condition ids are distinct
MaxRepeatLen == 3
RepeatEntries ==
    {PlainEntry("step", "a"), PlainEntry("step", "b"),
     ParallelEntry(<<PlainEntry("step", "a"), PlainEntry("step", "a")>>),
     ParallelEntry(<<PlainEntry("step", "a"), PlainEntry("step", "b")>>),
     ConditionalEntry(<<PlainEntry("step", "a")>>, <<"c">>),
     ConditionalEntry(<<PlainEntry("step", "a"), PlainEntry("step", "a")>>,
                      <<"c", "d">>)}
RepeatGraphs == SeqsUpTo(RepeatEntries, MaxRepeatLen)

\* a parallel block, after nothing or one step, followed by the step "d"
MaxBranches == 3
BranchEntries ==
    {PlainEntry("step", "a"), PlainEntry("step", "b"), PlainEntry("step", "d"),
     WorkflowEntry("step", "w", <<>>)}
ParallelGraphs ==
    {prefix \o <<ParallelEntry(bs), PlainEntry("step", "d")>> :
        prefix \in {<<>>, <<PlainEntry("step", "p")>>, <<PlainEntry("step", "d")>>},
        bs \in SeqsUpTo(BranchEntries, MaxBranches) \ {<<>>}}

InitOn(graphs) ==
    /\ stepGraph \in graphs
    /\ dagre \in DagreResults
    /\ pc = "idle"
    /\ nodes = <<>>
    /\ edges = <<>>
    /\ stepsFlow = EmptyObject
    /\ layouts = <<>>
    /\ open = FALSE
    /\ isMounted = FALSE
    /\ runSteps = NoSteps
    /\ strokes = <<>>

\* what a caller may hand over: no step graph at all, or a small one
MaxCallSize == 2
CallerGraphs == {Absent} \cup UNION {GraphsOfSize(n) : n \in 0..MaxCallSize}

\* step graphs whose entries collide on rendering ids in every position: in
\* sequence, in branches, inside a nested workflow and with a nested node's id
MaxAllocLen == 3
AllocEntries ==
    {PlainEntry("step", "a"), PlainEntry("step", "b_a"),
     PlainEntry("sleep", "a"), LoopEntry("a", "c"),
     ParallelEntry(<<PlainEntry("step", "a"), PlainEntry("step", "a")>>),
     ConditionalEntry(<<PlainEntry("step", "a")>>, <<"c">>),
     LoopWorkflowEntry("b", <<PlainEntry("step", "a")>>, "c"),
     WorkflowEntry("foreach", "b",
         <<PlainEntry("step", "a"),
           ConditionalEntry(<<PlainEntry("step", "a")>>, <<"d">>)>>)}
AllocGraphs == SeqsUpTo(AllocEntries, MaxAllocLen)

\* a step or foreach "g" with a nested workflow of recognized entries, after
\* no, one or two predecessors and before nothing or the step "z"
MaxNestedLen == 2
NestedEntries ==
    {PlainEntry("step", "a"), PlainEntry("sleep", "s"), LoopEntry("l", "d"),
     ParallelEntry(<<PlainEntry("step", "a"), PlainEntry("step", "e")>>),
     ConditionalEntry(<<PlainEntry("step", "a")>>, <<"c">>),
     ConditionalEntry(<<WorkflowEntry("step", "w", <<LoopEntry("l", "d")>>)>>, <<"c">>),
     WorkflowEntry("step", "w", <<PlainEntry("step", "a")>>)}
NestedGraphs ==
    {pre \o <<WorkflowEntry(t, "g", flow)>> \o post :
        pre \in {<<>>, <<PlainEntry("step", "p")>>,
                 <<ParallelEntry(<<PlainEntry("step", "p"), PlainEntry("step", "q")>>)>>},
        t \in {"step", "foreach"},
        flow \in SeqsUpTo(NestedEntries, MaxNestedLen),
        post \in {<<>>, <<PlainEntry("step", "z")>>}}

\* a step, foreach, sleep or sleepUntil entry after up to MaxPlainPrefix
\* entries that leave no, one or two exits
MaxPlainPrefix == 2
PredecessorEntries ==
    {PlainEntry("step", "p"),
     ParallelEntry(<<PlainEntry("step", "p"), PlainEntry("step", "q")>>),
     ConditionalEntry(<<PlainEntry("step", "p"), PlainEntry("step", "q")>>, <<"c", "d">>),
     LoopEntry("l", "c"),
     WorkflowEntry("step", "w",
         <<ParallelEntry(<<PlainEntry("step", "a"), PlainEntry("step", "e")>>)>>),
     WorkflowEntry("step", "w", <<>>)}
PlainGraphs ==
    {pre \o <<PlainEntry(t, id)>> :
        pre \in SeqsUpTo(PredecessorEntries, MaxPlainPrefix),
        t \in {"step", "foreach", "sleep", "sleepUntil"},
        id \in {"a", "p"}}

\* a parallel block of up to MaxFan branches (plain steps, with equal ids too,
\* and nested workflows), after no, one or two predecessors
MaxFan == 3
FanEntries ==
    {PlainEntry("step", "a"), PlainEntry("step", "b"),
     WorkflowEntry("step", "w", <<PlainEntry("step", "a"), PlainEntry("step", "e")>>),
     WorkflowEntry("step", "w", <<>>)}
FanGraphs ==
    {pre \o <<ParallelEntry(bs)>> :
        pre \in {<<>>, <<PlainEntry("step", "p")>>,
                 <<ParallelEntry(<<PlainEntry("step", "p"), PlainEntry("step", "q")>>)>>},
        bs \in SeqsUpTo(FanEntries, MaxFan) \ {<<>>}}

\* step graphs with groups up to three levels deep, groups side by side in a
\* parallel block (also beside steps with the group's step id), loops around a
\* nested workflow, empty nested workflows, and a top-level step named like a
\* nested node ("b_a")
MaxLayoutLen == 2
LayoutLeaves ==
    {PlainEntry("step", "a"), PlainEntry("step", "b_a"), LoopEntry("a", "c"),
     WorkflowEntry("step", "b", <<>>),
     WorkflowEntry("step", "b", <<PlainEntry("step", "a")>>),
     ParallelEntry(<<WorkflowEntry("step", "b", <<PlainEntry("step", "a")>>),
                     WorkflowEntry("step", "b", <<PlainEntry("step", "a")>>)>>),
     ParallelEntry(<<PlainEntry("step", "b"), PlainEntry("step", "b"),
                     WorkflowEntry("step", "b", <<PlainEntry("step", "a")>>)>>)}
LayoutEntries ==
    LayoutLeaves
    \cup {WorkflowEntry("foreach", "g", <<e>>) : e \in LayoutLeaves}
    \cup {LoopWorkflowEntry("g",
              <<WorkflowEntry("step", "b", <<PlainEntry("step", "a")>>),
                PlainEntry("step", "a")>>, "c"),
          WorkflowEntry("step", "g",
              <<PlainEntry("step", "a"),
                WorkflowEntry("step", "w",
                    <<LoopWorkflowEntry("b", <<PlainEntry("step", "a")>>, "d")>>)>>)}
LayoutGraphs == SeqsUpTo(LayoutEntries, MaxLayoutLen)

\* the nested-graph dialog of the workflow WorkflowName during a run: a step
\* graph with a plain edge, an edge into a group and a condition edge, and a
\* run state of at most MaxRunEntries reported steps
WorkflowName == "wf"
MaxRunEntries == 3
RunStatuses == {"success", "running"}
RunGraphs ==
    {<<PlainEntry("step", "a"), PlainEntry("step", "b")>>,
     <<PlainEntry("step", "a"), WorkflowEntry("step", "b", <<PlainEntry("step", "a")>>)>>,
     <<PlainEntry("step", "a"),
       ConditionalEntry(<<PlainEntry("step", "b")>>, <<"c">>)>>}

\* the keys under which the edges look up the run state
RunKeys ==
    UNION {{edges[e].previousStepPath, edges[e].nextStepPath,
            flatKey(WorkflowName, edges[e].previousStepId),
            flatKey(WorkflowName, edges[e].nextStepId)} : e \in DOMAIN edges}

InitRun ==
    /\ stepGraph \in RunGraphs
    /\ dagre \in DagreResults
    /\ pc = "idle"
    /\ nodes = <<>>
    /\ edges = <<>>
    /\ stepsFlow = EmptyObject
    /\ layouts = <<>>
    /\ open \in BOOLEAN
    /\ isMounted = FALSE
    /\ runSteps = NoSteps
    /\ strokes = <<>>

\* useEffect: once open, the timer sets isMounted and the graph is rendered
Mounted ==
    /\ pc = "done"
    /\ open
    /\ ~isMounted
    /\ isMounted' = TRUE
    /\ strokes' = render(edges, runSteps, WorkflowName, TRUE)
    /\ UNCHANGED <<stepGraph, dagre, pc, nodes, edges, stepsFlow, layouts, open, runSteps>>

\* useCurrentRun reports the status of a step; the component renders again
StepReported ==
    /\ pc = "done"
    /\ \E key \in RunKeys, status \in RunStatuses :
          /\ key \in DOMAIN runSteps \/ Cardinality(DOMAIN runSteps) < MaxRunEntries
          /\ runSteps' = [k \in DOMAIN runSteps \cup {key} |->
                          IF k = key THEN status ELSE runSteps[k]]
          /\ strokes' = render(edges, runSteps', WorkflowName, isMounted)
    /\ UNCHANGED <<stepGraph, dagre, pc, nodes, edges, stepsFlow, layouts, open,
                   isMounted>>

NextRun == Construct \/ Mounted \/ StepReported

SpecRun == InitRun /\ [][NextRun]_vars
SpecLayout == InitOn(LayoutGraphs) /\ [][Next]_vars
SpecCaller == InitOn(CallerGraphs) /\ [][Next]_vars
SpecFan == InitOn(FanGraphs) /\ [][Next]_vars
SpecPlain == InitOn(PlainGraphs) /\ [][Next]_vars
SpecNested == InitOn(NestedGraphs) /\ [][Next]_vars
SpecAlloc == InitOn(AllocGraphs) /\ [][Next]_vars
SpecSequence == InitOn(PlainSequences) /\ [][Next]_vars
SpecRepeat == InitOn(RepeatGraphs) /\ [][Next]_vars
SpecParallel == InitOn(ParallelGraphs) /\ [][Next]_vars

(***************************************************************************)
(* Vocabulary of the properties                                            *)
(***************************************************************************)
Range(q) == {q[i] : i \in DOMAIN q}

\* the state of the loop of the top-level processStepGraph before entry i (1-based)
StateBefore(i) ==
    processSteps(SubSeq(stepGraph, 1, i - 1), TopContext, dagre, 0, InitialLoopState)

\* what processStep returns for the top-level entry i (1-based)
ResultAt(i) ==
    LET s == StateBefore(i)
    IN  processStep(stepGraph[i], s.prevNodeIds, s.prevStepIds, s.prevStepPaths,
                    s.allNodeIds, i - 1, TopContext, dagre)

IsPlainStep(e) == e.type \in {"step", "foreach"} /\ ~hasNestedWorkflow(e)

\* nodes that stand for a step (default and group nodes), not for a condition
StepBearing(n) == n.type \in {"default-node", "group-node"}

\* the edges whose target is the node id
EdgesInto(id) == LET into(e) == e.target = id IN SelectSeq(edges, into)

Sources(es) == {es[i].source : i \in DOMAIN es}

RECURSIVE CountEntries(_, _, _)
\* full recursive scan of a step graph (nested workflows and branches
\* included), counting the entries whose type is in types, and those whose
\* type is in plainTypes and which have no nested workflow
CountEntries(graph, types, plainTypes) ==
    IF graph = <<>> THEN 0
    ELSE LET e == Head(graph)
         IN  (IF e.type \in types \/ (e.type \in plainTypes /\ ~hasNestedWorkflow(e))
              THEN 1 ELSE 0)
             + (IF hasNestedWorkflow(e)
                THEN CountEntries(e.serializedStepFlow, types, plainTypes) ELSE 0)
             + CountEntries(e.steps, types, plainTypes)
             + CountEntries(Tail(graph), types, plainTypes)

RECURSIVE AllIds(_)
\* every step id and condition id of a step graph, nested graphs included
AllIds(graph) ==
    IF graph = <<>> THEN <<>>
    ELSE LET e == Head(graph)
         IN  (IF e.id = undefined THEN <<>> ELSE <<e.id>>)
             \o e.serializedConditions
             \o AllIds(e.serializedStepFlow) \o AllIds(e.steps)
             \o AllIds(Tail(graph))

Occurrences(q, v) == Cardinality({i \in DOMAIN q : q[i] = v})

NumberOfType(t) == Cardinality({i \in DOMAIN nodes : nodes[i].type = t})

(***************************************************************************)
(* Properties                                                              *)
(***************************************************************************)

\* C1: the ids of the nodes returned by constructNodesAndEdges are pairwise
\* distinct across the whole flattened graph, for every step graph.
C1_RenderingIdsUnique ==
    pc = "done" =>
        \A i, j \in DOMAIN nodes : i # j => nodes[i].id # nodes[j].id

\* C2: no two step-bearing nodes returned by constructNodesAndEdges carry the
\* same data.stepPath.
C2_StepPathsUnique ==
    pc = "done" =>
        \A i, j \in DOMAIN nodes :
            (i # j /\ StepBearing(nodes[i]) /\ StepBearing(nodes[j]))
                => nodes[i].stepPath # nodes[j].stepPath

ParallelThenStep(i) ==
    /\ i \in DOMAIN stepGraph /\ (i + 1) \in DOMAIN stepGraph
    /\ stepGraph[i].type = "parallel"
    /\ stepGraph[i].steps # <<>>
    /\ \A b \in DOMAIN stepGraph[i].steps : IsPlainStep(stepGraph[i].steps[b])
    /\ IsPlainStep(stepGraph[i + 1])
    /\ Occurrences(AllIds(stepGraph), stepGraph[i + 1].id) = 1

\* C5: the plain step that follows a parallel block of plain steps has as its
\* predecessor set in stepsFlow exactly the step ids of the block's branches
\* (stepsFlow[D] = {B, C} for the diamond [A, parallel[B, C], D]).
C5_StepAfterParallelHasBranchesAsPredecessors ==
    pc = "done" =>
        \A i \in DOMAIN stepGraph :
            ParallelThenStep(i) =>
                /\ stepGraph[i + 1].id \in DOMAIN stepsFlow
                /\ Range(stepsFlow[stepGraph[i + 1].id])
                     = {stepGraph[i].steps[b].id : b \in DOMAIN stepGraph[i].steps}

\* C5 witness: the diamond [p, parallel[a, b], d] compiled
W_C5_Diamond ==
    /\ pc = "done"
    /\ stepGraph = <<PlainEntry("step", "p"),
                     ParallelEntry(<<PlainEntry("step", "a"), PlainEntry("step", "b")>>),
                     PlainEntry("step", "d")>>
    /\ Range(stepsFlow["d"]) = {"a", "b"}

\* C6 as stated: the number of default-node nodes equals the number of step,
\* foreach, sleep and sleepUntil entries of a full recursive scan.
C6_DefaultNodesEqualStepEntries ==
    pc = "done" =>
        NumberOfType("default-node")
            = CountEntries(stepGraph, {"step", "foreach", "sleep", "sleepUntil"}, {})

\* C6 amended: the number of default-node nodes equals the number of step,
\* foreach, sleep, sleepUntil and loop entries that have no nested workflow,
\* found by a full recursive scan (an entry with a nested workflow yields a
\* group node; a loop with a plain body yields a default node for its body).
C6_DefaultNodesEqualPlainEntries ==
    pc = "done" =>
        NumberOfType("default-node")
            = CountEntries(stepGraph, {},
                           {"step", "foreach", "sleep", "sleepUntil", "loop"})

\* C6 witness: a compiled graph with a plain loop, a nested-workflow step and a
\* sleep, whose default nodes are the loop body and the sleep
W_C6_LoopAndWorkflow ==
    /\ pc = "done"
    /\ \E i, j, k \in DOMAIN stepGraph :
          /\ stepGraph[i].type = "loop" /\ ~hasNestedWorkflow(stepGraph[i])
          /\ stepGraph[j].type = "step" /\ hasNestedWorkflow(stepGraph[j])
          /\ stepGraph[k].type = "sleep"
    /\ NumberOfType("default-node") = 2
    /\ NumberOfType("group-node") = 1

\* the rendering id of the node of the plain entry at top-level position i
NodeOfEntry(i) == ResultAt(i).entryNodeIds[1]

\* C7: a sequence of N plain steps, whatever their ids, yields exactly N-1
\* edges forming a single path: edge i goes from the node of entry i to the
\* node of entry i+1, and no node is visited twice.
C7_PlainSequenceIsSinglePath ==
    (pc = "done" /\ stepGraph # <<>>
        /\ \A i \in DOMAIN stepGraph : IsPlainStep(stepGraph[i]))
    => /\ Len(edges) = Len(stepGraph) - 1
       /\ \A i \in DOMAIN edges :
             /\ edges[i].source = NodeOfEntry(i)
             /\ edges[i].target = NodeOfEntry(i + 1)
       /\ \A i, j \in DOMAIN stepGraph : i # j => NodeOfEntry(i) # NodeOfEntry(j)

RECURSIVE LevelStepIds(_)
\* the step ids of the entries of one level, branches of parallel and
\* conditional entries included, in the order the compiler visits them
LevelStepIds(graph) ==
    IF graph = <<>> THEN <<>>
    ELSE LET e == Head(graph)
         IN  (IF e.type \in {"parallel", "conditional"} THEN LevelStepIds(e.steps)
              ELSE IF e.type \in {"step", "foreach", "sleep", "sleepUntil", "loop"}
              THEN <<e.id>>
              ELSE <<>>)
             \o LevelStepIds(Tail(graph))

\* the step-bearing nodes of the top level, in output order
TopStepNodes ==
    LET top(n) == StepBearing(n) /\ n.parentId = undefined
    IN  SelectSeq(nodes, top)

\* C8: step entries of the same nesting level that share a step id get pairwise
\* distinct rendering ids, and each node keeps the original step id as
\* data.label and data.stepId.
C8_SiblingsWithSameIdGetDistinctIds ==
    pc = "done" =>
        /\ \A i, j \in DOMAIN nodes :
              (/\ i # j
               /\ StepBearing(nodes[i]) /\ StepBearing(nodes[j])
               /\ nodes[i].parentId = nodes[j].parentId
               /\ nodes[i].stepId = nodes[j].stepId)
              => nodes[i].id # nodes[j].id
        /\ [i \in DOMAIN TopStepNodes |-> TopStepNodes[i].label]
             = LevelStepIds(stepGraph)
        /\ [i \in DOMAIN TopStepNodes |-> TopStepNodes[i].stepId]
             = LevelStepIds(stepGraph)

\* C9: the node that follows a parallel block with k branches processed against
\* predecessor set P receives exactly k incoming edges, one from the exit node
\* of each branch, and none from a member of P.
C9_StepAfterParallelHasOneEdgePerBranch ==
    pc = "done" =>
        \A i \in DOMAIN stepGraph :
            (/\ stepGraph[i].type = "parallel"
             /\ (i + 1) \in DOMAIN stepGraph
             /\ IsPlainStep(stepGraph[i + 1]))
            => LET into == EdgesInto(NodeOfEntry(i + 1))
               IN  /\ Len(into) = Len(stepGraph[i].steps)
                   /\ [k \in DOMAIN into |-> into[k].source] = ResultAt(i).exitNodeIds
                   /\ Sources(into) \cap Range(StateBefore(i).prevNodeIds) = {}

\* the rendering id of the body of the loop at top-level position i
LoopBodyId(i) ==
    allocateNodeId(StateBefore(i).allNodeIds, makeNodeId(TopContext, stepGraph[i].id),
                   i - 1)

\* the exit nodes of the body of the loop at top-level position i
LoopBodyExits(i) ==
    IF hasNestedWorkflow(stepGraph[i])
    THEN processStepGraph(stepGraph[i].serializedStepFlow,
             [parentGroupId |-> LoopBodyId(i), idPrefix |-> LoopBodyId(i),
              stepPathPrefix |-> makeStepPath(TopContext, stepGraph[i].id)],
             dagre).lastNodeIds
    ELSE <<LoopBodyId(i)>>

\* C10: for every loop entry, with a plain or a nested-workflow body, the
\* condition node has at least one incoming edge, the sources of its incoming
\* edges are exactly the exit nodes of the loop body, and the condition node is
\* the only exit of the loop block (the next entry is linked from it alone).
C10_LoopConditionFollowsBody ==
    pc = "done" =>
        \A i \in DOMAIN stepGraph :
            stepGraph[i].type = "loop" =>
                LET conditionNodeId ==
                        makeNodeId(TopContext, stepGraph[i].serializedConditions[1])
                    into == EdgesInto(conditionNodeId)
                IN  /\ Len(into) >= 1
                    /\ Sources(into) = Range(LoopBodyExits(i))
                    /\ ResultAt(i).exitNodeIds = <<conditionNodeId>>
                    /\ ((i + 1) \in DOMAIN stepGraph /\ IsPlainStep(stepGraph[i + 1]))
                         => Sources(EdgesInto(NodeOfEntry(i + 1))) = {conditionNodeId}

\* the pixels a group adds around the layout of its nested graph
GroupExtraWidth == 2 * GROUP_PADDING
GroupExtraHeight == GROUP_HEADER_HEIGHT + 2 * GROUP_PADDING

\* the layout call of the nested level of the group node id was made
HasNestedLayout(id) == \E k \in DOMAIN layouts : layouts[k].level = id

\* C11: every group node in the output, whatever its nested step graph (an
\* empty one included) and whatever bounding box the layout reports, has
\* data.width at least the nested layout's width plus 2*GROUP_PADDING and at
\* least 300, and data.height at least the nested layout's height plus
\* GROUP_HEADER_HEIGHT + 2*GROUP_PADDING and at least 150.
C11_GroupSizeCoversLayoutAndMinimum ==
    pc = "done" =>
        \A i \in DOMAIN nodes :
            nodes[i].type = "group-node" =>
                /\ nodes[i].width >= MIN_GROUP_WIDTH
                /\ nodes[i].height >= MIN_GROUP_HEIGHT
                /\ HasNestedLayout(nodes[i].id) =>
                      /\ nodes[i].width >= graphWidth(dagre) + GroupExtraWidth
                      /\ nodes[i].height >= graphHeight(dagre) + GroupExtraHeight

IsRecognized(e) ==
    e.type \in {"step", "foreach", "sleep", "sleepUntil", "parallel", "conditional",
                "loop"}

\* C12: an entry of unrecognized type contributes no node and no edge and
\* passes the predecessors through unchanged: in [X, U, Y] the node of the
\* plain step Y receives its incoming edges from the exit nodes of X.
C12_UnknownEntryPassesPredecessorsThrough ==
    pc = "done" =>
        \A i \in DOMAIN stepGraph :
            ~IsRecognized(stepGraph[i]) =>
                /\ ResultAt(i).nodes = <<>>
                /\ ResultAt(i).edges = <<>>
                /\ ResultAt(i).exitNodeIds = StateBefore(i).prevNodeIds
                /\ (i > 1 /\ (i + 1) \in DOMAIN stepGraph
                        /\ IsPlainStep(stepGraph[i + 1]))
                     => Sources(EdgesInto(NodeOfEntry(i + 1)))
                          = Range(ResultAt(i - 1).exitNodeIds)

\* C13: constructNodesAndEdges called with an absent or an empty step graph
\* returns an empty node list and an empty edge list, and makes no layout call.
C13_NoStepGraphGivesEmptyOutput ==
    (pc = "done" /\ (stepGraph = Absent \/ stepGraph = <<>>))
    => nodes = <<>> /\ edges = <<>> /\ layouts = <<>>

\* C13 witness: the call with no step graph at all has returned
W_C13_AbsentCompiled ==
    pc = "done" /\ stepGraph = Absent /\ nodes = <<>>

\* the candidate id of a step: prefixed with the enclosing group's id, if any
CandidateId(context, stepId) ==
    IF ParentOf(context) = undefined THEN stepId
    ELSE ParentOf(context) \o "_" \o stepId

\* the allocation rule: the candidate, or the candidate with the rank index
ExpectedId(candidate, earlierIds, rank) ==
    IF candidate \in Range(earlierIds)
    THEN candidate \o "-" \o ToString(rank)
    ELSE candidate

\* the nodes of ns that belong to the level of context
AtLevel(ns, context) ==
    LET direct(n) == n.parentId = ParentOf(context) IN SelectSeq(ns, direct)

\* the allocation rule at one level: graph is the step sequence of the level.
\* Every step-bearing node that entry i emits at this level has the id the rule
\* gives from the ids emitted before it (by earlier entries and, inside a
\* block, by earlier branches), those of nested nodes counted only if
\* withNested.  The rank index is the position of the entry, plus
\* conditionalOffset for the branches of a conditional.
LevelIdRule(graph, context, withNested, conditionalOffset) ==
    \A i \in DOMAIN graph :
        LET s == processSteps(SubSeq(graph, 1, i - 1), context, dagre, 0,
                              InitialLoopState)
            r == processStep(graph[i], s.prevNodeIds, s.prevStepIds, s.prevStepPaths,
                             s.allNodeIds, i - 1, context, dagre)
            rank == (i - 1)
                    + (IF graph[i].type = "conditional" THEN conditionalOffset ELSE 0)
        IN  \A k \in DOMAIN r.nodes :
                (StepBearing(r.nodes[k]) /\ r.nodes[k].parentId = ParentOf(context))
                => LET before == s.nodes \o SubSeq(r.nodes, 1, k - 1)
                       earlier == IF withNested THEN before
                                  ELSE AtLevel(before, context)
                   IN  r.nodes[k].id
                         = ExpectedId(CandidateId(context, r.nodes[k].stepId),
                                      Ids(earlier), rank)

\* the allocation rule at the top level and inside every nested workflow that
\* is an entry of the top level
IdRule(withNested, conditionalOffset) ==
    /\ LevelIdRule(stepGraph, TopContext, withNested, conditionalOffset)
    /\ \A i \in DOMAIN stepGraph :
          hasNestedWorkflow(stepGraph[i]) =>
              LevelIdRule(stepGraph[i].serializedStepFlow,
                          nestedContext(ResultAt(i).nodes[1].id,
                                        ResultAt(i).nodes[1].stepPath),
                          withNested, conditionalOffset)

\* C14 as stated: the rendering id of a step, foreach, sleep, sleepUntil or
\* loop-body node is its candidate id if the candidate is not among the ids
\* allocated earlier at the same level, and otherwise the candidate followed by
\* '-' and the position of the entry in its step sequence.
C14_IdIsCandidateOrCandidateWithPosition ==
    pc = "done" => IdRule(FALSE, 0)

\* C14 amended: the candidate is suffixed when it is among the ids of the nodes
\* emitted earlier for the same level, nested nodes included, and the rank
\* index is the position of the entry in the step sequence of its level, plus
\* one for the branch of a conditional.
C14_IdIsCandidateOrCandidateWithRank ==
    pc = "done" => IdRule(TRUE, 1)

\* C14 witness: the branch of the conditional at position 1 collides with the
\* step before the block and gets rank index 2
W_C14_ConditionalBranchSuffixed ==
    /\ pc = "done"
    /\ stepGraph = <<PlainEntry("step", "a"),
                     ConditionalEntry(<<PlainEntry("step", "a")>>, <<"c">>)>>
    /\ Ids(nodes) = <<"a", "c", "a-2">>

\* C15: the data.stepPath of every step-bearing and condition node is its
\* local id (the step id or the condition id, which is the node's label) at the
\* top level, and otherwise the stepPath of its enclosing group node followed
\* by '.' and the local id, at every nesting depth.
C15_StepPathIsGroupPathThenLocalId ==
    pc = "done" =>
        \A i \in DOMAIN nodes :
            IF nodes[i].parentId = undefined
            THEN nodes[i].stepPath = nodes[i].label
            ELSE \E g \in DOMAIN nodes :
                    /\ nodes[g].type = "group-node"
                    /\ nodes[g].id = nodes[i].parentId
                    /\ nodes[i].stepPath = nodes[g].stepPath \o "." \o nodes[i].label

\* C15 witness: a condition node and a step node two groups deep
W_C15_PathTwoGroupsDeep ==
    /\ pc = "done"
    /\ \E i, j \in DOMAIN nodes :
          /\ nodes[i].type = "condition-node" /\ nodes[i].stepPath = "b.b.c"
          /\ nodes[j].type = "default-node" /\ nodes[j].stepPath = "b.b.a"

\* the rendering id of the condition node of branch j (1-based) of the
\* conditional at top-level position i
ConditionIdOf(i, j) == makeNodeId(TopContext, stepGraph[i].serializedConditions[j])

\* the conditional at top-level position i cut down to its first j branches
FirstBranches(i, j) ==
    [stepGraph[i] EXCEPT !.steps = SubSeq(@, 1, j),
                         !.serializedConditions = SubSeq(@, 1, j)]

\* what processStep returns for the first j branches of the conditional at i
BlockUpTo(i, j) ==
    LET s == StateBefore(i)
    IN  processStep(FirstBranches(i, j), s.prevNodeIds, s.prevStepIds,
                    s.prevStepPaths, s.allNodeIds, i - 1, TopContext, dagre)

\* what processing branch j of the conditional at i returns: the branch is
\* processed after its condition node, with that node as its only predecessor
BranchResult(i, j) ==
    processStep(stepGraph[i].steps[j],
        <<ConditionIdOf(i, j)>>,
        <<stepGraph[i].serializedConditions[j]>>,
        <<makeStepPath(TopContext, stepGraph[i].serializedConditions[j])>>,
        StateBefore(i).allNodeIds \o Ids(BlockUpTo(i, j - 1).nodes)
            \o <<ConditionIdOf(i, j)>>,
        i, TopContext, dagre)

RECURSIVE BranchExits(_, _)
\* the exit nodes of the first j branches of the conditional at i, in order
BranchExits(i, j) ==
    IF j = 0 THEN <<>> ELSE BranchExits(i, j - 1) \o BranchResult(i, j).exitNodeIds

\* C16: a conditional with k branches and predecessor set P emits exactly k
\* condition nodes, each condition node receives exactly one edge from each
\* member of P, the entry nodes of branch j receive incoming edges only from
\* the condition node of branch j, and the exits of the block are the branches'
\* exits (no condition node and no member of P among them).
C16_ConditionalHasOneConditionNodePerBranch ==
    pc = "done" =>
        \A i \in DOMAIN stepGraph :
            stepGraph[i].type = "conditional" =>
                LET k == Len(stepGraph[i].steps)
                    P == StateBefore(i).prevNodeIds
                    r == ResultAt(i)
                    own == conditionNodeIds(AtLevel(r.nodes, TopContext))
                IN  /\ Len(own) = k
                    /\ \A j \in 1..k :
                          /\ [e \in DOMAIN EdgesInto(ConditionIdOf(i, j)) |->
                                 EdgesInto(ConditionIdOf(i, j))[e].source] = P
                          /\ \A n \in Range(BranchResult(i, j).entryNodeIds) :
                                Sources(EdgesInto(n)) = {ConditionIdOf(i, j)}
                    /\ r.exitNodeIds = BranchExits(i, k)
                    /\ Range(r.exitNodeIds) \cap Range(own) = {}
                    /\ Range(r.exitNodeIds) \cap Range(P) = {}

\* the conditional blocks of one level: for each, the rendering ids of its
\* predecessors and of the condition nodes of its branches
ConditionalBlocksAt(graph, context) ==
    {[preds |-> Range(processSteps(SubSeq(graph, 1, i - 1), context, dagre, 0,
                                   InitialLoopState).prevNodeIds),
      conds |-> {makeNodeId(context, graph[i].serializedConditions[j]) :
                    j \in DOMAIN graph[i].serializedConditions}] :
        i \in {p \in DOMAIN graph : graph[p].type = "conditional"}}

\* the conditional blocks of the top level and of the nested workflows that
\* are entries of the top level
ConditionalBlocks ==
    ConditionalBlocksAt(stepGraph, TopContext)
    \cup UNION {ConditionalBlocksAt(stepGraph[i].serializedStepFlow,
                    nestedContext(ResultAt(i).nodes[1].id,
                                  ResultAt(i).nodes[1].stepPath)) :
                  i \in {p \in DOMAIN stepGraph : hasNestedWorkflow(stepGraph[p])}}

RECURSIVE ConnectionsAt(_, _, _)
\* the number of connections from a predecessor of a conditional block to the
\* condition node of one of its branches, over the conditional blocks of one
\* level from position i on: predecessors times branches, for each block
ConnectionsAt(graph, context, i) ==
    IF i > Len(graph) THEN 0
    ELSE (IF graph[i].type = "conditional"
          THEN Len(processSteps(SubSeq(graph, 1, i - 1), context, dagre, 0,
                                InitialLoopState).prevNodeIds)
               * Len(graph[i].steps)
          ELSE 0)
         + ConnectionsAt(graph, context, i + 1)

RECURSIVE NestedConnections(_)
\* ConnectionsAt summed over the nested workflows of the top-level entries
\* from position i on
NestedConnections(i) ==
    IF i > Len(stepGraph) THEN 0
    ELSE (IF hasNestedWorkflow(stepGraph[i])
          THEN ConnectionsAt(stepGraph[i].serializedStepFlow,
                             nestedContext(ResultAt(i).nodes[1].id,
                                           ResultAt(i).nodes[1].stepPath), 1)
          ELSE 0)
         + NestedConnections(i + 1)

\* C17: an output edge carries data.conditionNode = true if and only if it
\* connects a predecessor of a conditional block to the condition node of one
\* of that block's branches: every flagged edge is such a connection, and the
\* flagged edges are as many as these connections, so that no edge of a step,
\* sleep, parallel block, loop condition or nested-group entry carries it.
C17_ConditionFlagOnlyIntoConditionalBranches ==
    pc = "done" =>
        /\ \A e \in DOMAIN edges :
              edges[e].conditionNode
                  => \E B \in ConditionalBlocks :
                        edges[e].source \in B.preds /\ edges[e].target \in B.conds
        /\ Cardinality({e \in DOMAIN edges : edges[e].conditionNode})
             = ConnectionsAt(stepGraph, TopContext, 1) + NestedConnections(1)

\* C17 witness: a loop and a conditional behind it, at the top level and in a
\* nested workflow: flagged edges into the conditionals' condition nodes, and
\* an unflagged edge into a loop's condition node
W_C17_FlaggedAndUnflaggedConditionEdges ==
    /\ pc = "done"
    /\ \E e, f, g \in DOMAIN edges :
          /\ edges[e].conditionNode /\ edges[e].target = "c"
          /\ edges[f].conditionNode /\ edges[f].target = "b_d"
          /\ ~edges[g].conditionNode /\ edges[g].target = "c"

MaxDepth == 4

RECURSIVE DescendantIds(_, _)
\* the ids of the output nodes inside the group id: its children and, to depth
\* levels below, the nodes inside its child groups
DescendantIds(id, depth) ==
    LET children == {n \in DOMAIN nodes : nodes[n].parentId = id}
    IN  {nodes[n].id : n \in children}
        \cup (IF depth = 0 THEN {}
              ELSE UNION {DescendantIds(nodes[n].id, depth - 1) :
                            n \in {c \in children : nodes[c].type = "group-node"}})

\* the ids of the non-group nodes inside the group id
StepsInside(id) ==
    {nodes[n].id : n \in {m \in DOMAIN nodes : /\ nodes[m].type # "group-node"
                                               /\ nodes[m].id \in DescendantIds(id, MaxDepth)}}

\* the entry nodes of the graph nested in the group id: its nodes that no edge
\* from inside the group leads to
EntriesInside(id) ==
    {n \in StepsInside(id) :
        ~\E e \in DOMAIN edges :
            edges[e].target = n /\ edges[e].source \in StepsInside(id)}

\* the exit nodes of the graph nested in the group id: its nodes from which no
\* edge leads to a node inside the group
ExitsInside(id) ==
    {n \in StepsInside(id) :
        ~\E e \in DOMAIN edges :
            edges[e].source = n /\ edges[e].target \in StepsInside(id)}

\* the node was named after its parent: parent id, '_', local id, and possibly
\* '-' and a rank index
NamedAfterParent(n) ==
    \/ n.id = n.parentId \o "_" \o n.label
    \/ \E k \in 0..MaxDepth : n.id = n.parentId \o "_" \o n.label \o "-" \o ToString(k)

\* C18: a step or foreach entry with a nested graph, processed with predecessor
\* set P, emits one group node; the nested nodes have ids prefixed by the id of
\* the group they are in and their parentId is that group; exactly one edge
\* goes from each member of P to each entry node of the nested graph (|P| x
\* |entries| edges from P, none to the group node); and the exit set exposed
\* to the following entry is exactly the nested graph's exit nodes.
C18_NestedStepIsGroupAroundItsGraph ==
    pc = "done" =>
        \A i \in DOMAIN stepGraph :
            (stepGraph[i].type \in {"step", "foreach"} /\ hasNestedWorkflow(stepGraph[i]))
            => LET r == ResultAt(i)
                   P == StateBefore(i).prevNodeIds
                   G == r.nodes[1].id
                   fromP == {e \in DOMAIN edges :
                                /\ edges[e].source \in Range(P)
                                /\ edges[e].target \in StepsInside(G) \cup {G}}
               IN  /\ r.nodes[1].type = "group-node"
                   /\ Len(AtLevel(r.nodes, TopContext)) = 1
                   /\ \A k \in 2..Len(r.nodes) :
                         /\ NamedAfterParent(r.nodes[k])
                         /\ r.nodes[k].parentId \in {G} \cup DescendantIds(G, MaxDepth)
                   /\ Cardinality(fromP) = Len(P) * Cardinality(EntriesInside(G))
                   /\ \A p \in Range(P) : \A n \in EntriesInside(G) :
                         \E e \in fromP : edges[e].source = p /\ edges[e].target = n
                   /\ ~\E e \in DOMAIN edges : edges[e].target = G
                   /\ Range(r.exitNodeIds) = ExitsInside(G)

IsSleep(e) == e.type \in {"sleep", "sleepUntil"}

\* the output edges that the top-level entry i emitted
EmittedEdges(i) ==
    SubSeq(edges, Len(StateBefore(i).edges) + 1, Len(StateBefore(i + 1).edges))

\* what processStep returns for the top-level entry i if it is made a plain
\* step with the same id
ResultAsStep(i) ==
    LET s == StateBefore(i)
    IN  processStep(PlainEntry("step", stepGraph[i].id), s.prevNodeIds, s.prevStepIds,
                    s.prevStepPaths, s.allNodeIds, i - 1, TopContext, dagre)

\* C19: a step or foreach entry without nested graph, and a sleep or
\* sleepUntil entry, processed with predecessor set P, emits exactly one
\* default-node and exactly |P| edges, one from each member of P to that node;
\* the node is the only entry node and the only exit node of the entry; and a
\* sleep differs from a plain step only in carrying a duration or a date.
C19_PlainEntryIsOneNodeLinkedFromEachPredecessor ==
    pc = "done" =>
        \A i \in DOMAIN stepGraph :
            (IsPlainStep(stepGraph[i]) \/ IsSleep(stepGraph[i]))
            => LET r == ResultAt(i)
                   P == StateBefore(i).prevNodeIds
                   out == EmittedEdges(i)
               IN  /\ Len(r.nodes) = 1
                   /\ r.nodes[1].type = "default-node"
                   /\ \E n \in DOMAIN nodes :
                         /\ nodes[n].id = r.nodes[1].id
                         /\ nodes[n].type = "default-node"
                         /\ nodes[n].stepId = stepGraph[i].id
                   /\ [k \in DOMAIN out |-> out[k].source] = P
                   /\ \A k \in DOMAIN out : out[k].target = r.nodes[1].id
                   /\ r.entryNodeIds = <<r.nodes[1].id>>
                   /\ r.exitNodeIds = <<r.nodes[1].id>>
                   /\ IsSleep(stepGraph[i]) =>
                         /\ r.nodes[1].timer
                              = (IF stepGraph[i].type = "sleep" THEN "duration" ELSE "date")
                         /\ [r EXCEPT !.nodes[1].timer = undefined] = ResultAsStep(i)
                   /\ ~IsSleep(stepGraph[i]) => r.nodes[1].timer = undefined

\* C19 witness: a sleep entry with two predecessors has been compiled, and
\* its node has one incoming edge from each
W_C19_SleepAfterTwoExits ==
    /\ pc = "done"
    /\ \E i \in DOMAIN stepGraph :
          /\ stepGraph[i].type = "sleep"
          /\ Len(StateBefore(i).prevNodeIds) = 2
          /\ Len(EmittedEdges(i)) = 2
          /\ Sources(EmittedEdges(i)) = {"p", "q"}

\* what processStep returns for the first j branches of the parallel block at
\* top-level position i
ParallelUpTo(i, j) ==
    LET s == StateBefore(i)
    IN  processStep([stepGraph[i] EXCEPT !.steps = SubSeq(@, 1, j)], s.prevNodeIds,
                    s.prevStepIds, s.prevStepPaths, s.allNodeIds, i - 1, TopContext,
                    dagre)

\* the nodes that branch j of the parallel block at i emitted
BranchNodes(i, j) ==
    SubSeq(ParallelUpTo(i, j).nodes, Len(ParallelUpTo(i, j - 1).nodes) + 1,
           Len(ParallelUpTo(i, j).nodes))

\* the output edges that branch j of the parallel block at i emitted
BranchEdges(i, j) ==
    SubSeq(EmittedEdges(i), Len(ParallelUpTo(i, j - 1).edges) + 1,
           Len(ParallelUpTo(i, j).edges))

\* the entry / exit nodes that branch j of the parallel block at i added
BranchEntryIds(i, j) ==
    SubSeq(ParallelUpTo(i, j).entryNodeIds,
           Len(ParallelUpTo(i, j - 1).entryNodeIds) + 1,
           Len(ParallelUpTo(i, j).entryNodeIds))
BranchExitIds(i, j) ==
    SubSeq(ParallelUpTo(i, j).exitNodeIds,
           Len(ParallelUpTo(i, j - 1).exitNodeIds) + 1,
           Len(ParallelUpTo(i, j).exitNodeIds))

\* of the nodes bn and the edges be that a branch emitted: the non-group nodes
\* that no edge leads to from inside the branch
SourcesOf(bn, be) ==
    {bn[m].id :
        m \in {n \in DOMAIN bn :
                 /\ bn[n].type # "group-node"
                 /\ ~\E e \in DOMAIN be :
                       be[e].target = bn[n].id /\ be[e].source \in Range(Ids(bn))}}

\* the non-group nodes from which no edge of the branch leads on
SinksOf(bn, be) ==
    {bn[m].id :
        m \in {n \in DOMAIN bn :
                 /\ bn[n].type # "group-node"
                 /\ ~\E e \in DOMAIN be : be[e].source = bn[n].id}}

BranchSources(i, j) == SourcesOf(BranchNodes(i, j), BranchEdges(i, j))
BranchSinks(i, j) == SinksOf(BranchNodes(i, j), BranchEdges(i, j))

\* a branch that emitted the nodes bn and the edges be, and added the entry
\* and exit nodes entryIds and exitIds, was processed against P alone
BranchIsSeparate(P, bn, be, entryIds, exitIds) ==
    /\ Range(entryIds) = SourcesOf(bn, be)
    /\ Range(exitIds) = SinksOf(bn, be)
    /\ \A n \in Range(entryIds) :
          {be[e].source : e \in {f \in DOMAIN be : be[f].target = n}} = P
    /\ \A e \in DOMAIN be :
          \/ be[e].source \in P /\ be[e].target \in Range(entryIds)
          \/ be[e].source \in Range(Ids(bn)) /\ be[e].target \in Range(Ids(bn))

\* C20: the branches of a parallel block are not chained.  Every branch is
\* processed against the block's predecessor set P: each entry node of a
\* branch receives edges from exactly the members of P; every edge of a branch
\* goes from P to an entry node of that branch or stays inside the branch, so
\* none goes from one branch to another; and the block's entry and exit sets
\* are the unions of the branches' entry and exit sets.
C20_ParallelBranchesShareThePredecessors ==
    pc = "done" =>
        \A i \in DOMAIN stepGraph :
            stepGraph[i].type = "parallel" =>
                LET k == Len(stepGraph[i].steps)
                    r == ResultAt(i)
                IN  /\ \A j \in 1..k :
                          BranchIsSeparate(Range(StateBefore(i).prevNodeIds),
                              BranchNodes(i, j), BranchEdges(i, j),
                              BranchEntryIds(i, j), BranchExitIds(i, j))
                    /\ Range(r.entryNodeIds) = UNION {BranchSources(i, j) : j \in 1..k}
                    /\ Range(r.exitNodeIds) = UNION {BranchSinks(i, j) : j \in 1..k}
                    /\ Len(EmittedEdges(i)) = Len(r.edges)

\* C20 witness: three branches, a nested workflow among them, after two
\* predecessors: the entry node of each branch has an edge from both
W_C20_ThreeBranchesAfterTwoExits ==
    /\ pc = "done"
    /\ Len(stepGraph) >= 2
    /\ stepGraph[2].type = "parallel"
    /\ Len(stepGraph[2].steps) = 3
    /\ hasNestedWorkflow(stepGraph[2].steps[2])
    /\ BranchSources(2, 2) = {"w_a"}
    /\ Sources(EdgesInto("w_a")) = {"p", "q"}
    /\ Sources(EdgesInto("w_e")) = {"w_a"}

\* the targets of the output edges that leave a node of S
Successors(S) ==
    {edges[e].target : e \in {f \in DOMAIN edges : edges[f].source \in S}}

RECURSIVE ReachableFrom(_, _)
\* the node ids reached from S along at most n further output edges
ReachableFrom(S, n) ==
    IF n = 0 \/ Successors(S) \subseteq S THEN S
    ELSE ReachableFrom(S \cup Successors(S), n - 1)

\* the node id v lies on a directed cycle of the output edges
OnCycle(v) == v \in ReachableFrom(Successors({v}), Len(edges))

\* the rendering ids of the body of the loop at top-level position i: the body
\* node and, for a nested-workflow body, the nodes inside its group
LoopBodyIds(i) == {LoopBodyId(i)} \cup DescendantIds(LoopBodyId(i), MaxDepth)

\* C21: for any step graph, loops included, the output edges form a directed
\* acyclic graph over the node ids: no edge has source equal to target, no
\* directed cycle exists, and no edge goes from a loop's condition node back
\* to that loop's body.
C21_EdgesFormDag ==
    pc = "done" =>
        /\ \A e \in DOMAIN edges : edges[e].source # edges[e].target
        /\ \A n \in DOMAIN nodes : ~OnCycle(nodes[n].id)
        /\ \A i \in DOMAIN stepGraph :
              stepGraph[i].type = "loop" =>
                  ~\E e \in DOMAIN edges :
                      /\ edges[e].source
                           = makeNodeId(TopContext, stepGraph[i].serializedConditions[1])
                      /\ edges[e].target \in LoopBodyIds(i)

\* the levels of the output: the top level and the groups that hold a node or
\* were laid out
Levels ==
    {nodes[n].parentId : n \in DOMAIN nodes} \cup {layouts[k].level : k \in DOMAIN layouts}

\* how many times the layout calls of level L were given a node with the id v
TimesGiven(L, v) ==
    Cardinality({km \in UNION {{<<k, m>> : m \in DOMAIN layouts[k].given} :
                                  k \in DOMAIN layouts} :
                    /\ layouts[km[1]].level = L
                    /\ layouts[km[1]].given[km[2]].id = v})

\* how many output nodes of level L have the id v
TimesAtLevel(L, v) ==
    Cardinality({n \in DOMAIN nodes : nodes[n].parentId = L /\ nodes[n].id = v})

\* the ids of the output nodes and of the nodes given to a layout call
KnownIds ==
    Range(Ids(nodes))
    \cup UNION {{layouts[k].given[m].id : m \in DOMAIN layouts[k].given} :
                  k \in DOMAIN layouts}

\* where the layout call of its own level puts a node: the centre the layout
\* reports, made a top-left corner, inside a group moved by header and padding
OwnLevelX(n) ==
    dagre.x - (nodeWidth(n) \div 2) + (IF n.parentId = undefined THEN 0 ELSE GROUP_PADDING)
OwnLevelY(n) ==
    dagre.y - (nodeHeight(n) \div 2)
    + (IF n.parentId = undefined THEN 0 ELSE GROUP_HEADER_HEIGHT + GROUP_PADDING)

\* C22: each node is positioned by exactly one layout call, the one of the
\* level whose parentGroupId equals the node's parentId: the layout calls of a
\* level are given the nodes of that level, each once, and no other node, and
\* every output node has the position its own level's layout gave it (the
\* layouts of the levels above left it unchanged).
C22_NodePositionedByItsOwnLevel ==
    pc = "done" =>
        /\ \A L \in Levels : \A v \in KnownIds : TimesGiven(L, v) = TimesAtLevel(L, v)
        /\ \A n \in DOMAIN nodes :
              /\ nodes[n].positioned
              /\ nodes[n].x = OwnLevelX(nodes[n])
              /\ nodes[n].y = OwnLevelY(nodes[n])

\* C22 witness: a node three groups deep, positioned inside its group, in a
\* run with four layout calls
W_C22_ThreeGroupsDeep ==
    /\ pc = "done"
    /\ Len(layouts) = 4
    /\ \E n \in DOMAIN nodes :
          /\ nodes[n].id = "g_w_b_a"
          /\ nodes[n].parentId = "g_w_b"
          /\ nodes[n].x = dagre.x - (NODE_WIDTH \div 2) + GROUP_PADDING

\* the size a group gets from the layout call of its nested level: the bounding
\* box the layout returned plus header and padding, at least the minimum size
SizeFromLayout ==
    [width |-> Max(graphWidth(dagre) + GroupExtraWidth, MIN_GROUP_WIDTH),
     height |-> Max(graphHeight(dagre) + GroupExtraHeight, MIN_GROUP_HEIGHT)]

\* entry m of layout call k is a group node of the level laid out
GroupGiven(k, m) ==
    \E n \in DOMAIN nodes :
        /\ nodes[n].type = "group-node"
        /\ nodes[n].id = layouts[k].given[m].id
        /\ nodes[n].parentId = layouts[k].level

\* the layout call of the nested level of entry m of layout call k was made
\* before call k, and the size given to call k is the one it led to
LaidOutBefore(k, m) ==
    /\ \E j \in 1..(k - 1) : layouts[j].level = layouts[k].given[m].id
    /\ layouts[k].given[m].width = SizeFromLayout.width
    /\ layouts[k].given[m].height = SizeFromLayout.height

\* C23: layout runs bottom-up: for every group node G, the layout call of G's
\* nested level completes before the layout call of the level that contains G
\* starts, and the size G is given to that outer layout is the width/height
\* returned by G's own nested layout call, at every nesting depth.
C23_GroupLaidOutBeforeItsLevel ==
    pc = "done" =>
        \A k \in DOMAIN layouts : \A m \in DOMAIN layouts[k].given :
            GroupGiven(k, m) => LaidOutBefore(k, m)

\* the identity of each node of ns: rendering id, path and enclosing group
Identities(ns) ==
    [k \in DOMAIN ns |->
        [id |-> ns[k].id, stepPath |-> ns[k].stepPath, parentId |-> ns[k].parentId]]

\* what processStep returns for the nested-workflow entry e of the top level
\* taken out of its surroundings: no predecessors, and of the ids allocated
\* before it only the one that gave its group node the id groupId
Isolated(e, groupId, yIndex) ==
    processStep(e, <<>>, <<>>, <<>>,
                IF groupId = makeNodeId(TopContext, e.id) THEN <<>>
                ELSE <<makeNodeId(TopContext, e.id)>>,
                yIndex, TopContext, dagre)

\* the nodes ns that the nested-workflow entry e emitted at rank yIndex, the
\* group node first, have inside the group the identities they have when the
\* entry is taken out of its surroundings
NestedIsolated(ns, e, yIndex) ==
    Identities(ns) = Identities(Isolated(e, ns[1].id, yIndex).nodes)

\* C24: identity allocation inside a nested workflow is isolated from its
\* surroundings: the ids and paths of the nodes of a nested step graph depend
\* only on that step graph and on the id and path of its own group node, so ids
\* allocated at outer levels, in sibling groups or in sibling parallel branches
\* never cause or change a suffix inside it; and a parallel branch's ids depend
\* only on ids allocated before it, never on later branches (the block cut
\* after branch j gives the first j branches the ids they have in the block).
C24_NestedAllocationIsIsolated ==
    pc = "done" =>
        \A i \in DOMAIN stepGraph :
            /\ hasNestedWorkflow(stepGraph[i])
                  => NestedIsolated(ResultAt(i).nodes, stepGraph[i], i - 1)
            /\ stepGraph[i].type = "parallel" =>
                  \A j \in DOMAIN stepGraph[i].steps :
                      /\ hasNestedWorkflow(stepGraph[i].steps[j])
                            => NestedIsolated(BranchNodes(i, j), stepGraph[i].steps[j],
                                              i - 1)
                      /\ Identities(ParallelUpTo(i, j).nodes)
                           = SubSeq(Identities(ResultAt(i).nodes), 1,
                                    Len(ParallelUpTo(i, j).nodes))

\* C24 witness: the step "b_a" of the top level precedes the group "b" whose
\* nested step "a" is named "b_a" all the same, and a parallel block holds two
\* groups with a nested step each
W_C24_OuterIdDoesNotSuffixNested ==
    /\ pc = "done"
    /\ Len(stepGraph) = 2
    /\ stepGraph[1] = PlainEntry("step", "b_a")
    /\ stepGraph[2].type = "parallel"
    /\ Ids(nodes) = <<"b_a", "b", "b-1", "b_a", "b-1_a">>

\* the path-based test of an edge against the run state
PathTest(e) ==
    /\ e.previousStepPath \in DOMAIN runSteps
    /\ runSteps[e.previousStepPath] = "success"
    /\ e.nextStepPath \in DOMAIN runSteps

\* the flat-id test of an edge against the run state
FlatTest(e) ==
    /\ flatKey(WorkflowName, e.previousStepId) \in DOMAIN runSteps
    /\ runSteps[flatKey(WorkflowName, e.previousStepId)] = "success"
    /\ flatKey(WorkflowName, e.nextStepId) \in DOMAIN runSteps

\* C25: in WorkflowNestedGraph, for every run state, an edge that is not a
\* condition edge is coloured active if and only if either the run-state entry
\* at its previousStepPath has status success and an entry exists at its
\* nextStepPath, or (fallback) the entry at workflowName.previousStepId has
\* status success and an entry exists at workflowName.nextStepId; a positive
\* path-based result is never overridden by the flat-id lookup.
C25_PlainEdgeActiveIffPathOrFlatTest ==
    isMounted =>
        /\ DOMAIN strokes = DOMAIN edges
        /\ \A e \in DOMAIN edges :
              ~edges[e].conditionNode =>
                  /\ (strokes[e] = ActiveStroke) <=> (PathTest(edges[e]) \/ FlatTest(edges[e]))
                  /\ PathTest(edges[e]) => strokes[e] = ActiveStroke

\* C25 witness: the edge from the condition c to the step b is active by its
\* paths while the flat-id lookup finds the run's entry for c not successful
W_C25_PathResultNotOverridden ==
    /\ isMounted
    /\ \E e \in DOMAIN edges :
          /\ ~edges[e].conditionNode
          /\ PathTest(edges[e])
          /\ flatKey(WorkflowName, edges[e].previousStepId) \in DOMAIN runSteps
          /\ ~FlatTest(edges[e])
          /\ strokes[e] = ActiveStroke

RECURSIVE AncestorStepIds(_, _)
\* the step ids of the groups around a node whose parentId is id, to depth
\* levels up
AncestorStepIds(id, depth) ==
    IF id = undefined \/ depth = 0 THEN {}
    ELSE UNION {{nodes[g].stepId} \cup AncestorStepIds(nodes[g].parentId, depth - 1) :
                  g \in {m \in DOMAIN nodes :
                           nodes[m].type = "group-node" /\ nodes[m].id = id}}

\* the ids that name the step owning the node n as the source of an edge: its
\* step id; for the condition node of a conditional the condition's id; for
\* the condition node of a loop the condition's id or the loop step's id; and
\* the step ids of the nested-workflow steps around it
Owners(n) ==
    (IF n.type = "condition-node"
     THEN {n.label} \cup (IF n.nextStepId = undefined THEN {n.previousStepId} ELSE {})
     ELSE {n.stepId})
    \cup AncestorStepIds(n.parentId, MaxDepth)

\* C26: for every output edge, data.previousStepId is defined and names the
\* step that owns the edge's source node: the step id of the source node
\* itself, the id of the condition for a condition-node source, or the step id
\* of the nested-workflow step whose exit node the source is; also for the
\* edges into the entry that follows a parallel block whose branches include
\* a nested workflow with zero or several exit nodes.
C26_PreviousStepIdNamesOwnerOfSource ==
    pc = "done" =>
        \A e \in DOMAIN edges :
            /\ edges[e].previousStepId # undefined
            /\ \E n \in DOMAIN nodes :
                  /\ nodes[n].id = edges[e].source
                  /\ edges[e].previousStepId \in Owners(nodes[n])

\* an output node with the rendering id id has the path path
HasPath(id, path) ==
    \E n \in DOMAIN nodes : nodes[n].id = id /\ nodes[n].stepPath = path

\* C27: for every output edge, data.previousStepPath equals the data.stepPath
\* of the edge's source node and data.nextStepPath equals the data.stepPath of
\* the edge's target node, including edges that enter a nested-workflow group
\* whose nested graph starts with a parallel block, a conditional or a loop.
C27_EdgePathsAreEndpointPaths ==
    pc = "done" =>
        \A e \in DOMAIN edges :
            /\ HasPath(edges[e].source, edges[e].previousStepPath)
            /\ HasPath(edges[e].target, edges[e].nextStepPath)

\* the rendering id id is the id of an output node, and of no group node
IsPlainEndpoint(id) ==
    /\ \E n \in DOMAIN nodes : nodes[n].id = id
    /\ \A n \in DOMAIN nodes : nodes[n].id = id => nodes[n].type # "group-node"

\* C28: every output edge connects two nodes that are present in the output,
\* and neither endpoint is a group node: edges that enter or leave a nested
\* workflow attach to the nested graph's entry and exit nodes, never to the
\* group node itself.
C28_EdgesJoinNodesThatAreNoGroups ==
    pc = "done" =>
        \A e \in DOMAIN edges :
            IsPlainEndpoint(edges[e].source) /\ IsPlainEndpoint(edges[e].target)

RECURSIVE AllRecognized(_)
\* every entry of the step graph, nested graphs and branches included, is of
\* a recognized type
AllRecognized(graph) ==
    \A i \in DOMAIN graph :
        /\ IsRecognized(graph[i])
        /\ AllRecognized(graph[i].steps)
        /\ hasNestedWorkflow(graph[i]) => AllRecognized(graph[i].serializedStepFlow)

\* the top-level entry i is linked from the exits of the entry before it: an
\* edge it emitted goes from an exit node of entry i - 1 to one of its entry nodes
LinkedFromPrevious(i) ==
    \E e \in DOMAIN EmittedEdges(i) :
        /\ EmittedEdges(i)[e].source \in Range(ResultAt(i - 1).exitNodeIds)
        /\ EmittedEdges(i)[e].target \in Range(ResultAt(i).entryNodeIds)

\* C29: the sequence stays connected: in the output for a step graph of
\* recognized entries, every non-group node of the top level that is not an
\* entry node of the first entry is the target of at least one edge, and every
\* entry that follows another entry is linked from that entry's exits, also
\* when the preceding entry is a nested-workflow step whose nested step graph
\* is empty.
C29_SequenceStaysConnected ==
    (pc = "done" /\ stepGraph # Absent /\ AllRecognized(stepGraph)) =>
        /\ \A n \in DOMAIN nodes :
              (/\ nodes[n].parentId = undefined
               /\ nodes[n].type # "group-node"
               /\ nodes[n].id \notin Range(ResultAt(1).entryNodeIds))
              => EdgesInto(nodes[n].id) # <<>>
        /\ \A i \in 2..Len(stepGraph) : LinkedFromPrevious(i)

RECURSIVE TopLevelCount(_)
\* the number of nodes the entries of a step graph put on their own level: one
\* for a step, foreach, sleep or sleepUntil (a group node if it has a nested
\* workflow), two for a loop, one for each branch of a parallel block, two for
\* each branch of a conditional, none for an unrecognized entry
TopLevelCount(graph) ==
    IF graph = <<>> THEN 0
    ELSE LET e == Head(graph)
         IN  (IF e.type \in {"step", "foreach", "sleep", "sleepUntil"} THEN 1
              ELSE IF e.type = "loop" THEN 2
              ELSE IF e.type = "parallel" THEN Len(e.steps)
              ELSE IF e.type = "conditional" THEN 2 * Len(e.steps)
              ELSE 0)
             + TopLevelCount(Tail(graph))

\* C30: in the node list returned by constructNodesAndEdges, every node that
\* has a parentId refers to a node of type group-node that is present in the
\* list and appears earlier in it than the node itself, at every nesting depth;
\* the nodes of the top level, which come first in the list, have no parentId,
\* and every other node has one.
C30_ParentGroupComesFirst ==
    (pc = "done" /\ stepGraph # Absent) =>
        /\ \A n \in DOMAIN nodes :
              nodes[n].parentId # undefined =>
                  \E g \in 1..(n - 1) :
                      /\ nodes[g].type = "group-node"
                      /\ nodes[g].id = nodes[n].parentId
        /\ \A n \in DOMAIN nodes :
              (nodes[n].parentId = undefined) <=> (n <= TopLevelCount(stepGraph))

\* C30 witness: a chain of three groups and a step inside the innermost, each
\* after the group that holds it
W_C30_ChainOfParents ==
    /\ pc = "done"
    /\ \E i, j, k, l \in DOMAIN nodes :
          /\ i < j /\ j < k /\ k < l
          /\ nodes[i].id = "g" /\ nodes[i].parentId = undefined
          /\ nodes[j].id = "g_w" /\ nodes[j].parentId = "g"
          /\ nodes[k].id = "g_w_b" /\ nodes[k].parentId = "g_w"
          /\ nodes[l].id = "g_w_b_a" /\ nodes[l].parentId = "g_w_b"

====
